---------------------------- MODULE Spec2Model ----------------------------
(***************************************************************************)
(* A model of the MPEG2-TS codec of sile/mpeg2ts: the TS packet reader and *)
(* writer (src/src/ts), the PES packet reader (src/src/pes) and the byte   *)
(* codecs they are built from.                                             *)
(*                                                                         *)
(* Bytes are naturals 0..255 and byte streams are sequences of them.       *)
(* A u64 that does not fit TLC's 32-bit integers (a Timestamp, a           *)
(* ClockReference) is held as a sequence of base-2^15 limbs, most          *)
(* significant first; a 40- or 48-bit wire word is held as its bits.       *)
(* A u32 CRC is held as two 16-bit halves.                                 *)
(***************************************************************************)
EXTENDS Integers, Sequences, FiniteSets, TLC

VARIABLES
    stream,       \* TsPacketReader.stream: the bytes not yet consumed
    pids,         \* TsPacketReader.pids: HashMap<Pid, PidKind>
    result,       \* what the last read_ts_packet call returned
    dispatch,     \* the payload decoder the last read_ts_packet call reached
    decoded,      \* the packets read_ts_packet has returned so far, in order
    sink,         \* TsPacketWriter.stream: the bytes written so far
    wresult,      \* what the last write_ts_packet call returned
    okWrites,     \* the number of write_ts_packet calls that returned Ok
    calls,        \* the number of calls made so far (bounds the run)
    ts_input,     \* PesPacketReader.ts_packet_reader: the TS packets it has yet to yield
    pes_packets,  \* PesPacketReader.pes_packets: HashMap<Pid, PartialPesPacket>
    eos,          \* PesPacketReader.eos
    pes_result,   \* what the last read_pes_packet call returned
    consumed,     \* the TS packets the PES reader has consumed so far, in order
    emitted,      \* the PES packets read_pes_packet has returned so far, in order
    drained,      \* in-flight count when the TS reader reported end of stream, and drain calls since
    reach,        \* for each call, how many results of the TS reader had been taken when it returned
    stream2,      \* the second TsPacketReader of a round trip: its bytes
    pids2,        \* the second TsPacketReader of a round trip: its PID map
    decoded2,     \* the packets the second reader has returned so far
    phase,        \* the step a round trip is at
    es_input,     \* EsFrameReader.packet_reader: the results it has yet to yield
    es_frames,    \* EsFrameReader.es_frames: HashMap<Pid, EsFrame>
    es_pcr,       \* EsFrameReader.pcr
    es_result,    \* what the last read_es_frame call returned
    es_emitted,   \* the frames read_es_frame has returned so far, in order
    es_consumed,  \* the results read_es_frame has taken from the packet reader
    origin,       \* a codec on its own: the value a run starts from
    subject,      \* a codec on its own: the value in hand
    wire,         \* a codec on its own: the bytes written, or the bytes to read
    back,         \* a codec on its own: what the last operation returned
    step          \* a codec on its own: the last operation applied

vars == <<stream, pids, result, dispatch, decoded, sink, wresult, okWrites, calls,
          ts_input, pes_packets, eos, pes_result, consumed, emitted, drained, reach,
          stream2, pids2, decoded2, phase,
          es_input, es_frames, es_pcr, es_result, es_emitted, es_consumed,
          origin, subject, wire, back, step>>

readerVars == <<stream, pids, result, dispatch, decoded>>
writerVars == <<sink, wresult, okWrites>>
pesVars    == <<ts_input, pes_packets, eos, pes_result, consumed, emitted, drained, reach>>
tripVars   == <<stream2, pids2, decoded2, phase>>
esVars     == <<es_input, es_frames, es_pcr, es_result, es_emitted, es_consumed>>
codecVars  == <<origin, subject, wire, back, step>>

-----------------------------------------------------------------------------
(* Bits, bytes and limbs *)

\* Codecs call one another through Call, the dispatch table defined after the
\* last of them, so that each codec is one node of the expression graph.
RECURSIVE Call(_, _)

RECURSIVE NatToBits(_, _)
\* The low `width` bits of n, most significant first.
NatToBits(n, width) ==
    IF width = 0 THEN << >>
    ELSE Append(NatToBits(n \div 2, width - 1), n % 2)

RECURSIVE BitsToNat(_)
BitsToNat(bits) ==
    IF bits = << >> THEN 0
    ELSE 2 * BitsToNat(SubSeq(bits, 1, Len(bits) - 1)) + bits[Len(bits)]

RECURSIVE BytesToBits(_)
BytesToBits(bytes) ==
    IF bytes = << >> THEN << >>
    ELSE NatToBits(bytes[1], 8) \o BytesToBits(Tail(bytes))

RECURSIVE BitsToBytes(_)
BitsToBytes(bits) ==
    IF bits = << >> THEN << >>
    ELSE <<BitsToNat(SubSeq(bits, 1, 8))>> \o BitsToBytes(SubSeq(bits, 9, Len(bits)))

\* Bits hi..lo (bit 0 the least significant) of a wire word given as its bits.
Field(bits, hi, lo) == BitsToNat(SubSeq(bits, Len(bits) - hi, Len(bits) - lo))

LimbBase == 2 ^ 15

RECURSIVE LimbsToBits(_)
LimbsToBits(limbs) ==
    IF limbs = << >> THEN << >>
    ELSE NatToBits(limbs[1], 15) \o LimbsToBits(Tail(limbs))

RECURSIVE StripZeros(_)
\* A limb sequence without leading zero limbs: the canonical form of a number.
StripZeros(limbs) ==
    IF limbs # << >> /\ limbs[1] = 0 THEN StripZeros(Tail(limbs)) ELSE limbs

RECURSIVE LimbsMulAdd(_, _, _)
\* limbs * m + a, for small m and a.
LimbsMulAdd(limbs, m, a) ==
    IF limbs = << >> THEN (IF a = 0 THEN << >> ELSE
                           IF a < LimbBase THEN <<a>> ELSE <<a \div LimbBase, a % LimbBase>>)
    ELSE LET last == limbs[Len(limbs)]
             t    == last * m + a
         IN  Append(LimbsMulAdd(SubSeq(limbs, 1, Len(limbs) - 1), m, t \div LimbBase),
                    t % LimbBase)

RECURSIVE LimbsDivMod(_, _, _)
\* <<quotient limbs, remainder>> of (rem * LimbBase^Len(limbs) + limbs) by d.
LimbsDivMod(limbs, d, rem) ==
    IF limbs = << >> THEN <<(<< >>), rem>>
    ELSE LET t    == rem * LimbBase + limbs[1]
             next == LimbsDivMod(Tail(limbs), d, t % d)
         IN  <<(<<t \div d>>) \o next[1], next[2]>>

\* The number of bits of the number the limbs hold.
RECURSIVE NatBitLen(_)
NatBitLen(n) == IF n = 0 THEN 0 ELSE 1 + NatBitLen(n \div 2)

LimbsBitLen(limbs) ==
    LET s == StripZeros(limbs)
    IN  IF s = << >> THEN 0 ELSE (Len(s) - 1) * 15 + NatBitLen(s[1])

\* limbs <= other, as numbers.
RECURSIVE LimbsLeqSameLen(_, _)
LimbsLeqSameLen(a, b) ==
    IF a = << >> THEN TRUE
    ELSE IF a[1] # b[1] THEN a[1] < b[1]
    ELSE LimbsLeqSameLen(Tail(a), Tail(b))

LimbsLeq(a, b) ==
    LET x == StripZeros(a)
        y == StripZeros(b)
    IN  IF Len(x) # Len(y) THEN Len(x) < Len(y) ELSE LimbsLeqSameLen(x, y)

\* The limbs of a small natural.
Limbs(n) == LimbsMulAdd(<< >>, 1, n)

\* The limbs padded on the left with zero limbs to n limbs.
RECURSIVE PadLimbs(_, _)
PadLimbs(limbs, n) == IF Len(limbs) >= n THEN limbs ELSE PadLimbs(<<0>> \o limbs, n)

-----------------------------------------------------------------------------
(* Results of reads and writes.  A read returns the value it decoded and   *)
(* the bytes of its reader it has left unread; a failed read has consumed  *)
(* the bytes up to the one that failed it (a short read consumes them all).*)

Ok(v, rest)  == [err |-> "Ok", val |-> v, rest |-> rest]
Err(e, rest) == [err |-> e, val |-> << >>, rest |-> rest]
IsOk(r)      == r.err = "Ok"

None    == << >>
Some(x) == <<x>>
IsSome(o) == o # << >>

\* std::io::Read::take: the first n bytes of the reader.
Take(bytes, n) == SubSeq(bytes, 1, IF n < Len(bytes) THEN n ELSE Len(bytes))
Drop(bytes, n) == SubSeq(bytes, (IF n < Len(bytes) THEN n ELSE Len(bytes)) + 1, Len(bytes))

\* byteorder's read_u8 / read_u16 / read_uint and read_exact: an I/O error
\* (ErrorKind::Other through track_io!) when the reader runs short.
ReadU8(bytes) ==
    IF Len(bytes) < 1 THEN Err("Other", << >>) ELSE Ok(bytes[1], Tail(bytes))

ReadU16(bytes) ==
    IF Len(bytes) < 2 THEN Err("Other", << >>)
    ELSE Ok(bytes[1] * 256 + bytes[2], Drop(bytes, 2))

ReadExact(bytes, n) ==
    IF Len(bytes) < n THEN Err("Other", << >>) ELSE Ok(Take(bytes, n), Drop(bytes, n))

WriteU16(n) == <<n \div 256, n % 256>>

-----------------------------------------------------------------------------
(* CRC-32/MPEG-2: polynomial 0x04C11DB7, initial value 0xFFFFFFFF, most    *)
(* significant bit first, no reflection, no final XOR.  A value is         *)
(* <<high 16 bits, low 16 bits>>.                                          *)

RECURSIVE Xor(_, _)
Xor(a, b) ==
    IF a = 0 THEN b
    ELSE IF b = 0 THEN a
    ELSE ((a + b) % 2) + 2 * Xor(a \div 2, b \div 2)

CrcPolyHigh == 1217
CrcPolyLow  == 7607

\* One bit of the shift register: shift left, and XOR the polynomial in when
\* the bit shifted out was set.
CrcShift(c) ==
    LET shifted == <<(c[1] % 32768) * 2 + c[2] \div 32768, (c[2] % 32768) * 2>>
    IN  IF c[1] >= 32768
        THEN <<Xor(shifted[1], CrcPolyHigh), Xor(shifted[2], CrcPolyLow)>>
        ELSE shifted

CrcTable ==
    [i \in 0..255 |->
        CrcShift(CrcShift(CrcShift(CrcShift(
        CrcShift(CrcShift(CrcShift(CrcShift(<<i * 256, 0>>))))))))]

\* Crc32::update for one byte.
CrcUpdate(c, byte) ==
    LET t == CrcTable[Xor(c[1] \div 256, byte)]
    IN  <<Xor((c[1] % 256) * 256 + c[2] \div 256, t[1]), Xor((c[2] % 256) * 256, t[2])>>

RECURSIVE CrcOver(_, _)
\* Crc32::update for a slice: the register is advanced byte by byte (and is
\* evaluated at every byte, two 16-bit halves, before the next one is taken).
CrcOver(c, bytes) ==
    IF bytes = << >> \/ c[1] > 65535 \/ c[2] > 65535 THEN c
    ELSE CrcOver(CrcUpdate(c, bytes[1]), Tail(bytes))

\* Crc32::new() fed with `bytes`, then Crc32::value().
Crc32(bytes) == CrcOver(<<65535, 65535>>, bytes)

\* The u32 as byteorder writes it, big endian.
CrcBytes(c) == WriteU16(c[1]) \o WriteU16(c[2])

-----------------------------------------------------------------------------
(* src/src/time.rs.  A Timestamp or ClockReference is the canonical limb   *)
(* sequence of its u64.                                                    *)

\* Timestamp::MAX = (1 << 33) - 1
TimestampMax == <<7, 32767, 32767>>

\* ClockReference::MAX = ((1 << 33) - 1) * 300 + 0b1_1111_1111
ClockReferenceMax == LimbsMulAdd(TimestampMax, 300, 511)

\* Timestamp::new
TimestampNew(n) == IF LimbsLeq(n, TimestampMax) THEN Ok(StripZeros(n), << >>)
                   ELSE Err("InvalidInput", << >>)

\* ClockReference::new
ClockReferenceNew(n) == IF LimbsLeq(n, ClockReferenceMax) THEN Ok(StripZeros(n), << >>)
                        ELSE Err("InvalidInput", << >>)

\* Timestamp::from_u64 on the 40 bits of the wire word.
TimestampFromBits(bits) ==
    IF Field(bits, 0, 0) = 0 THEN Err("InvalidInput", << >>)
    ELSE IF Field(bits, 16, 16) = 0 THEN Err("InvalidInput", << >>)
    ELSE IF Field(bits, 32, 32) = 0 THEN Err("InvalidInput", << >>)
    ELSE LET n0 == Field(bits, 35, 33)
             n1 == Field(bits, 31, 17)
             n2 == Field(bits, 15, 1)
         IN  Ok(StripZeros(<<n0, n1, n2>>), << >>)

\* Timestamp::read_from
TimestampReadFrom(bytes, check_bits) ==
    LET r == ReadExact(bytes, 5)
    IN  IF ~IsOk(r) THEN r
        ELSE LET bits == BytesToBits(r.val)
             IN  IF Field(bits, 39, 36) # check_bits THEN Err("InvalidInput", r.rest)
                 ELSE LET t == Call("TimestampFromBits", <<bits>>)
                      IN  [t EXCEPT !.rest = r.rest]

\* byteorder's write_uint(n, nbytes), n given as its bits: it panics (an assertion)
\* when n does not fit nbytes bytes.
WriteUint(bits, nbytes) ==
    LET over == Len(bits) - nbytes * 8
    IN  IF \E i \in 1..over : bits[i] # 0
        THEN Err("Panic", << >>)
        ELSE Ok(BitsToBytes(SubSeq(bits, over + 1, Len(bits))), << >>)

\* Timestamp::write_to: the bytes written (val), or the failure.
TimestampWriteTo(ts, check_bits) ==
    LET l  == PadLimbs(ts, 3)
        n1 == BitsToNat(LimbsToBits(SubSeq(l, 1, Len(l) - 2)))
        n2 == l[Len(l) - 1]
        n3 == l[Len(l)]
        \* (n0 << 36) | (n1 << 33) | (1 << 32) | (n2 << 17) | (1 << 16) | (n3 << 1) | 1;
        \* n1 is at most 3 bits wide for every Timestamp, so the fields do not overlap.
        bits == NatToBits(check_bits, 8) \o NatToBits(n1, 3) \o <<1>>
                \o NatToBits(n2, 15) \o <<1>> \o NatToBits(n3, 15) \o <<1>>
    IN  Call("WriteUint", <<bits, 5>>)

\* ClockReference::read_pcr_from
ReadPcrFrom(bytes) ==
    LET r == ReadExact(bytes, 6)
    IN  IF ~IsOk(r) THEN r
        ELSE LET bits == BytesToBits(r.val)
                 base == <<Field(bits, 47, 45), Field(bits, 44, 30), Field(bits, 29, 15)>>
                 extension == Field(bits, 8, 0)
             IN  Ok(StripZeros(LimbsMulAdd(base, 300, extension)), r.rest)

\* ClockReference::write_pcr_to: n = (base << 15) | extension, six bytes.
WritePcrTo(cr) ==
    LET dm == LimbsDivMod(cr, 300, 0)
        base == PadLimbs(StripZeros(dm[1]), 3)
        extension == dm[2]
    IN  Call("WriteUint", <<LimbsToBits(base) \o NatToBits(extension, 15), 6>>)

\* ClockReference::read_escr_from
ReadEscrFrom(bytes) ==
    LET r == ReadExact(bytes, 6)
    IN  IF ~IsOk(r) THEN r
        ELSE LET bits == BytesToBits(r.val)
             IN  IF Field(bits, 47, 46) # 0 THEN Err("InvalidInput", r.rest)
                 ELSE IF Field(bits, 0, 0) # 1 THEN Err("InvalidInput", r.rest)
                 ELSE IF Field(bits, 10, 10) # 1 THEN Err("InvalidInput", r.rest)
                 ELSE IF Field(bits, 26, 26) # 1 THEN Err("InvalidInput", r.rest)
                 ELSE IF Field(bits, 42, 42) # 1 THEN Err("InvalidInput", r.rest)
                 ELSE LET extension == Field(bits, 9, 1)
                          n0 == Field(bits, 25, 11)
                          n1 == Field(bits, 41, 27)
                          n2 == Field(bits, 45, 43)
                      IN  Ok(StripZeros(LimbsMulAdd(<<n2, n1, n0>>, 300, extension)), r.rest)

\* ClockReference::write_escr_to.  The fields are OR-ed together; base2 = base >> 30
\* is 3 bits wide for every base below 2^33, and a wider one spills into the bits above.
WriteEscrTo(cr) ==
    LET dm == LimbsDivMod(cr, 300, 0)
        base == PadLimbs(StripZeros(dm[1]), 3)
        extension == dm[2]
        base0 == base[Len(base)]
        base1 == base[Len(base) - 1]
        base2 == SubSeq(base, 1, Len(base) - 2)
        bits == LimbsToBits(base2) \o <<1>> \o NatToBits(base1, 15) \o <<1>>
                \o NatToBits(base0, 15) \o <<1>> \o NatToBits(extension, 9) \o <<1>>
    IN  Call("WriteUint", <<bits, 6>>)

-----------------------------------------------------------------------------
(* Scalar types of the TS layer (types.rs). *)

\* Pid::MAX = (1 << 13) - 1, Pid::PAT and Pid::NULL
PidMax  == 8191
PidPat  == 0
PidNull == 8191

\* Pid::new
PidNew(pid) == IF pid <= PidMax THEN Ok(pid, << >>) ELSE Err("InvalidInput", << >>)

\* Pid::read_from: a 16-bit word whose three reserved bits are set.
PidReadFrom(bytes) ==
    LET r == ReadU16(bytes)
    IN  IF ~IsOk(r) THEN r
        ELSE IF r.val \div 8192 # 7 THEN Err("InvalidInput", r.rest)
        ELSE Ok(r.val % 8192, r.rest)

\* Pid::write_to: the reserved bits set, then the 13-bit PID.
PidWriteTo(pid) == WriteU16(57344 + pid)

\* ContinuityCounter::from_u8
ContinuityCounterFromU8(n) ==
    IF n <= 15 THEN Ok(n, << >>) ELSE Err("InvalidInput", << >>)

\* VersionNumber::from_u8: a 5-bit number.
VersionNumberFromU8(n) ==
    IF n <= 31 THEN Ok(n, << >>) ELSE Err("InvalidInput", << >>)

\* TransportScramblingControl::from_u8; the value is the enum's discriminant.
TransportScramblingControlFromU8(n) ==
    IF n \in {0, 2, 3} THEN Ok(n, << >>) ELSE Err("InvalidInput", << >>)

\* Bytes::MAX_SIZE = TsPacket::SIZE - 4
TsPacketSize == 188
BytesMaxSize == TsPacketSize - 4

\* Bytes::read_from: reads until the reader is empty or the buffer is full.
BytesReadFrom(bytes) == Ok(Take(bytes, BytesMaxSize), Drop(bytes, BytesMaxSize))

\* LegalTimeWindow::read_from
LegalTimeWindowReadFrom(bytes) ==
    LET r == ReadU16(bytes)
    IN  IF ~IsOk(r) THEN r
        ELSE Ok([is_valid |-> r.val >= 32768, offset |-> r.val % 32768], r.rest)

\* LegalTimeWindow::write_to
LegalTimeWindowWriteTo(ltw) ==
    WriteU16((IF ltw.is_valid THEN 32768 ELSE 0) + ltw.offset)

\* PiecewiseRate::read_from: read_uint(3) as u32, masked with 0x3FFF_FFFF (30 bits).
PiecewiseRateReadFrom(bytes) ==
    LET r == ReadExact(bytes, 3)
    IN  IF ~IsOk(r) THEN r
        ELSE Ok(BitsToNat(BytesToBits(r.val)) % (2 ^ 30), r.rest)

\* PiecewiseRate::write_to: the rate as a 24-bit word.
PiecewiseRateWriteTo(rate) == Call("WriteUint", <<NatToBits(rate, 30), 3>>)

\* SeamlessSplice::read_from
SeamlessSpliceReadFrom(bytes) ==
    LET r == ReadExact(bytes, 5)
    IN  IF ~IsOk(r) THEN r
        ELSE LET bits == BytesToBits(r.val)
                 t    == Call("TimestampFromBits", <<bits>>)
             IN  IF ~IsOk(t) THEN Err(t.err, r.rest)
                 ELSE Ok([splice_type |-> Field(bits, 39, 36),
                          dts_next_access_unit |-> t.val], r.rest)

\* SeamlessSplice::write_to: the splice type in the check-bit place of the timestamp.
SeamlessSpliceWriteTo(ss) == Call("TimestampWriteTo", <<ss.dts_next_access_unit, ss.splice_type>>)

-----------------------------------------------------------------------------
(* src/src/util.rs *)

\* consume_stuffing_bytes: every byte left in the reader must be 0xFF.
ConsumeStuffingBytes(bytes) ==
    IF \E i \in 1..Len(bytes) : bytes[i] # 255
    THEN LET bad == CHOOSE i \in 1..Len(bytes) :
                        bytes[i] # 255 /\ \A j \in 1..(i - 1) : bytes[j] = 255
         IN  Err("InvalidInput", Drop(bytes, bad))
    ELSE Ok(<< >>, << >>)

\* write_stuffing_bytes: `size` bytes of a TsPacket::SIZE-byte buffer of 0xFF; the
\* slice panics beyond the buffer (and a size that underflowed is beyond it).
WriteStuffingBytes(size) ==
    IF size < 0 \/ size > TsPacketSize THEN Err("Panic", << >>)
    ELSE Ok([i \in 1..size |-> 255], << >>)

-----------------------------------------------------------------------------
(* src/src/ts/adaptation_field.rs *)

\* The result of a read made on the first n bytes of `bytes` (a take), as a
\* result on `bytes` itself: what the take left unread stays in the reader.
Within(r, bytes, n) == [r EXCEPT !.rest = r.rest \o Drop(bytes, n)]

Flag(b) == IF b THEN 1 ELSE 0

\* AdaptationExtensionField::external_size
ExtensionExternalSize(x) ==
    2 + (IF IsSome(x.legal_time_window) THEN 2 ELSE 0)
      + (IF IsSome(x.piecewise_rate) THEN 3 ELSE 0)
      + (IF IsSome(x.seamless_splice) THEN 5 ELSE 0)

\* AdaptationExtensionField::read_from, after the length byte, on the take.
ExtensionReadBody(bytes) ==
    LET f == ReadU8(bytes)
    IN  IF ~IsOk(f) THEN f
        ELSE
        LET ltw == IF f.val \div 128 = 1
                   THEN Call("LegalTimeWindowReadFrom", <<f.rest>>)
                   ELSE Ok(<< >>, f.rest)
        IN  IF ~IsOk(ltw) THEN ltw
            ELSE
            LET pr == IF (f.val \div 64) % 2 = 1
                      THEN Call("PiecewiseRateReadFrom", <<ltw.rest>>)
                      ELSE Ok(<< >>, ltw.rest)
            IN  IF ~IsOk(pr) THEN pr
                ELSE
                LET ss == IF (f.val \div 32) % 2 = 1
                          THEN Call("SeamlessSpliceReadFrom", <<pr.rest>>)
                          ELSE Ok(<< >>, pr.rest)
                IN  IF ~IsOk(ss) THEN ss
                    ELSE IF ss.rest # << >> THEN Err("InvalidInput", ss.rest)
                    ELSE Ok([legal_time_window |->
                                 IF f.val \div 128 = 1 THEN Some(ltw.val) ELSE None,
                             piecewise_rate |->
                                 IF (f.val \div 64) % 2 = 1 THEN Some(pr.val) ELSE None,
                             seamless_splice |->
                                 IF (f.val \div 32) % 2 = 1 THEN Some(ss.val) ELSE None],
                            << >>)

\* AdaptationExtensionField::read_from
ExtensionReadFrom(bytes) ==
    LET l == ReadU8(bytes)
    IN  IF ~IsOk(l) THEN l
        ELSE Within(Call("ExtensionReadBody", <<Take(l.rest, l.val)>>), l.rest, l.val)

\* AdaptationExtensionField::write_to: the bytes written (val), or the failure.
ExtensionWriteTo(x) ==
    LET pr == IF IsSome(x.piecewise_rate)
              THEN Call("PiecewiseRateWriteTo", <<x.piecewise_rate[1]>>) ELSE Ok(<< >>, << >>)
        ss == IF IsSome(x.seamless_splice)
              THEN Call("SeamlessSpliceWriteTo", <<x.seamless_splice[1]>>) ELSE Ok(<< >>, << >>)
        head == <<ExtensionExternalSize(x) - 1,
                  Flag(IsSome(x.legal_time_window)) * 128
                  + Flag(IsSome(x.piecewise_rate)) * 64
                  + Flag(IsSome(x.seamless_splice)) * 32>>
                \o (IF IsSome(x.legal_time_window)
                    THEN LegalTimeWindowWriteTo(x.legal_time_window[1]) ELSE << >>)
    IN  IF ~IsOk(pr) THEN [pr EXCEPT !.val = head]
        ELSE IF ~IsOk(ss) THEN [ss EXCEPT !.val = head \o pr.val]
        ELSE Ok(head \o pr.val \o ss.val, << >>)

\* AdaptationField::external_size
ExternalSize(a) ==
    1 + 1
    + (IF IsSome(a.pcr) THEN 6 ELSE 0)
    + (IF IsSome(a.opcr) THEN 6 ELSE 0)
    + (IF IsSome(a.splice_countdown) THEN 1 ELSE 0)
    + Len(a.transport_private_data)
    + (IF IsSome(a.extension) THEN ExtensionExternalSize(a.extension[1]) ELSE 0)

\* The length-prefixed private data as AdaptationField::read_from reads it.
PrivateDataReadFrom(bytes) ==
    LET l == ReadU8(bytes)
    IN  IF ~IsOk(l) THEN l ELSE ReadExact(l.rest, l.val)

\* AdaptationField::read_from, after the length byte, on the take.
AdaptationFieldReadBody(bytes) ==
    LET f == ReadU8(bytes)
    IN  IF ~IsOk(f) THEN f
        ELSE
        LET bit(k) == (f.val \div (2 ^ k)) % 2 = 1
            pcr == IF bit(4) THEN Call("ReadPcrFrom", <<f.rest>>) ELSE Ok(<< >>, f.rest)
        IN  IF ~IsOk(pcr) THEN pcr
            ELSE
            LET opcr == IF bit(3) THEN Call("ReadPcrFrom", <<pcr.rest>>) ELSE Ok(<< >>, pcr.rest)
            IN  IF ~IsOk(opcr) THEN opcr
                ELSE
                LET sc == IF bit(2) THEN ReadU8(opcr.rest) ELSE Ok(<< >>, opcr.rest)
                IN  IF ~IsOk(sc) THEN sc
                    ELSE
                    LET pd == IF bit(1) THEN Call("PrivateDataReadFrom", <<sc.rest>>)
                              ELSE Ok(<< >>, sc.rest)
                    IN  IF ~IsOk(pd) THEN pd
                        ELSE
                        LET ext == IF bit(0) THEN Call("ExtensionReadFrom", <<pd.rest>>)
                                   ELSE Ok(<< >>, pd.rest)
                        IN  IF ~IsOk(ext) THEN ext
                            ELSE
                            LET st == Call("ConsumeStuffingBytes", <<ext.rest>>)
                            IN  IF ~IsOk(st) THEN st
                                ELSE Ok(Some([discontinuity_indicator |-> bit(7),
                                              random_access_indicator |-> bit(6),
                                              es_priority_indicator   |-> bit(5),
                                              pcr  |-> IF bit(4) THEN Some(pcr.val) ELSE None,
                                              opcr |-> IF bit(3) THEN Some(opcr.val) ELSE None,
                                              splice_countdown |->
                                                  IF bit(2) THEN Some(sc.val) ELSE None,
                                              transport_private_data |-> pd.val,
                                              extension |->
                                                  IF bit(0) THEN Some(ext.val) ELSE None]),
                                        << >>)

\* AdaptationField::read_from: Ok(None) for a zero length byte.
AdaptationFieldReadFrom(bytes) ==
    LET l == ReadU8(bytes)
    IN  IF ~IsOk(l) THEN l
        ELSE IF l.val = 0 THEN Ok(None, l.rest)
        ELSE Within(Call("AdaptationFieldReadBody", <<Take(l.rest, l.val)>>), l.rest, l.val)

\* write_stuffing_bytes with a stuffing byte in the place of the flags byte.
WriteStuffingFieldAllFF(field_len) ==
    IF field_len = 0 THEN Ok(<<0>>, << >>)
    ELSE LET st == Call("WriteStuffingBytes", <<field_len - 1>>)
         IN  [st EXCEPT !.val = <<field_len, 255>> \o st.val]

\* write_stuffing_bytes without the flags byte that follows a non-zero length.
WriteStuffingFieldNoFlags(field_len) ==
    IF field_len = 0 THEN Ok(<<0>>, << >>)
    ELSE LET st == Call("WriteStuffingBytes", <<field_len - 1>>)
         IN  [st EXCEPT !.val = <<field_len>> \o st.val]

\* AdaptationField::write_stuffing_bytes: the bytes written.
WriteStuffingField(field_len) ==
    IF field_len = 0 THEN Ok(<<0>>, << >>)
    ELSE LET st == Call("WriteStuffingBytes", <<field_len - 1>>)
         IN  [st EXCEPT !.val = <<field_len, 0>> \o st.val]

\* The private data as AdaptationField::write_to writes it: write_all of the bytes.
PrivateDataWriteTo(data) == data

\* AdaptationField::write_to: the bytes written (val), also when it fails part-way.
AdaptationFieldWriteTo(a, field_len) ==
    LET n == Flag(a.discontinuity_indicator) * 128
             + Flag(a.random_access_indicator) * 64
             + Flag(a.es_priority_indicator) * 32
             + Flag(IsSome(a.pcr)) * 16
             + Flag(IsSome(a.opcr)) * 8
             + Flag(IsSome(a.splice_countdown)) * 4
             + Flag(a.transport_private_data # << >>) * 2
             + Flag(IsSome(a.extension))
        head == <<field_len, n>>
        pcr  == IF IsSome(a.pcr) THEN Call("WritePcrTo", <<a.pcr[1]>>) ELSE Ok(<< >>, << >>)
        opcr == IF IsSome(a.opcr) THEN Call("WritePcrTo", <<a.opcr[1]>>) ELSE Ok(<< >>, << >>)
        sc   == IF IsSome(a.splice_countdown) THEN a.splice_countdown ELSE << >>
        ext  == IF IsSome(a.extension) THEN Call("ExtensionWriteTo", <<a.extension[1]>>)
                ELSE Ok(<< >>, << >>)
        \* (field_len + 1) as usize - self.external_size(): field_len + 1 is a u8 sum
        stuffing_len == IF field_len + 1 > 255 THEN -1
                        ELSE field_len + 1 - ExternalSize(a)
        st   == Call("WriteStuffingBytes", <<stuffing_len>>)
    IN  IF ~IsOk(pcr) THEN [pcr EXCEPT !.val = head]
        ELSE IF ~IsOk(opcr) THEN [opcr EXCEPT !.val = head \o pcr.val]
        ELSE
        LET body == head \o pcr.val \o opcr.val \o sc
                    \o PrivateDataWriteTo(a.transport_private_data)
        IN  IF ~IsOk(ext) THEN [ext EXCEPT !.val = body \o ext.val]
            ELSE IF ~IsOk(st) THEN [st EXCEPT !.val = body \o ext.val]
            ELSE Ok(body \o ext.val \o st.val, << >>)

\* AdaptationFieldControl's discriminants
PayloadOnly               == 1
AdaptationFieldOnly       == 2
AdaptationFieldAndPayload == 3

HasAdaptationField(c) == c # PayloadOnly
HasPayload(c)         == c # AdaptationFieldOnly

\* AdaptationFieldControl::from_u8
AdaptationFieldControlFromU8(n) ==
    IF n \in {1, 2, 3} THEN Ok(n, << >>) ELSE Err("InvalidInput", << >>)

-----------------------------------------------------------------------------
(* src/src/ts/psi.rs *)

MAX_SYNTAX_SECTION_LEN == 1021

\* PsiTableHeader::read_from: <<header, syntax_section_len>>.
PsiTableHeaderReadFrom(bytes) ==
    LET t == ReadU8(bytes)
    IN  IF ~IsOk(t) THEN t
        ELSE
        LET r == ReadU16(t.rest)
        IN  IF ~IsOk(r) THEN r
            ELSE
            LET n == r.val
                syntax_section_indicator == n \div 32768 = 1
                private_bit == (n \div 16384) % 2 = 1
                syntax_section_len == n % 1024
            IN  IF (n \div 4096) % 4 # 3 THEN Err("InvalidInput", r.rest)
                ELSE IF (n \div 1024) % 4 # 0 THEN Err("InvalidInput", r.rest)
                ELSE IF syntax_section_len > MAX_SYNTAX_SECTION_LEN
                     THEN Err("InvalidInput", r.rest)
                ELSE IF syntax_section_indicator /\ syntax_section_len = 0
                     THEN Err("InvalidInput", r.rest)
                ELSE Ok(<<[table_id |-> t.val, private_bit |-> private_bit],
                          syntax_section_len>>, r.rest)

\* PsiTableHeader::write_to
PsiTableHeaderWriteTo(header, syntax_section_len) ==
    IF syntax_section_len > MAX_SYNTAX_SECTION_LEN THEN Err("InvalidInput", << >>)
    ELSE Ok(<<header.table_id>>
            \o WriteU16(Flag(syntax_section_len # 0) * 32768
                        + Flag(header.private_bit) * 16384
                        + 12288 + syntax_section_len),
            << >>)

\* PsiTableSyntax::external_size
PsiTableSyntaxExternalSize(s) == 2 + 1 + 1 + 1 + Len(s.table_data) + 4

\* PsiTableSyntax::read_from, on the take of syntax_section_len - 4 bytes.
PsiTableSyntaxReadFrom(bytes) ==
    LET x == ReadU16(bytes)
    IN  IF ~IsOk(x) THEN x
        ELSE
        LET b == ReadU8(x.rest)
        IN  IF ~IsOk(b) THEN b
            ELSE IF b.val \div 64 # 3 THEN Err("InvalidInput", b.rest)
            ELSE
            LET v == VersionNumberFromU8((b.val % 64) \div 2)
                s == ReadU8(b.rest)
            IN  IF ~IsOk(v) THEN Err(v.err, b.rest)
                ELSE IF ~IsOk(s) THEN s
                ELSE
                LET l == ReadU8(s.rest)
                IN  IF ~IsOk(l) THEN l
                    ELSE Ok([table_id_extension     |-> x.val,
                             version_number         |-> v.val,
                             current_next_indicator |-> b.val % 2 = 1,
                             section_number         |-> s.val,
                             last_section_number    |-> l.val,
                             table_data             |-> l.rest],
                            << >>)

\* PsiTableSyntax::write_to
PsiTableSyntaxWriteTo(s) ==
    WriteU16(s.table_id_extension)
    \o <<192 + s.version_number * 2 + Flag(s.current_next_indicator),
         s.section_number, s.last_section_number>>
    \o s.table_data

\* What WithCrc32 has accumulated when PsiTable::read_from reads the trailing word:
\* the bytes read through it so far, the table header and the syntax section body.
SectionCrcOnRead(headerBytes, bodyBytes) == Call("Crc32", <<headerBytes \o bodyBytes>>)

\* PsiTable::read_from
PsiTableReadFrom(bytes) ==
    LET h == Call("PsiTableHeaderReadFrom", <<bytes>>)
    IN  IF ~IsOk(h) THEN h
        ELSE
        LET header == h.val[1]
            syntax_section_len == h.val[2]
        IN  IF syntax_section_len = 0
            THEN Ok([header |-> header, syntax |-> None], h.rest)
            ELSE IF syntax_section_len < 4 THEN Err("InvalidInput", h.rest)
            ELSE
            LET body == Take(h.rest, syntax_section_len - 4)
                s    == Within(Call("PsiTableSyntaxReadFrom", <<body>>), h.rest, syntax_section_len - 4)
            IN  IF ~IsOk(s) THEN s
                ELSE
                LET crc32 == Call("SectionCrcOnRead", <<Take(bytes, 3), body>>)
                    e     == ReadExact(s.rest, 4)
                IN  IF ~IsOk(e) THEN e
                    ELSE IF CrcBytes(crc32) # e.val THEN Err("InvalidInput", e.rest)
                    ELSE Ok([header |-> header, syntax |-> Some(s.val)], e.rest)

\* The CRC of the syntax section body alone
SectionCrcOnWriteBodyOnly(headerBytes, bodyBytes) == Call("Crc32", <<bodyBytes>>)

\* What WithCrc32 has accumulated when PsiTable::write_to appends the trailing word.
SectionCrcOnWrite(headerBytes, bodyBytes) == Call("Crc32", <<headerBytes \o bodyBytes>>)

\* PsiTable::write_to
PsiTableWriteTo(table) ==
    LET syntax_section_len ==
            IF IsSome(table.syntax) THEN PsiTableSyntaxExternalSize(table.syntax[1]) ELSE 0
        h == Call("PsiTableHeaderWriteTo", <<table.header, syntax_section_len>>)
    IN  IF ~IsOk(h) THEN h
        ELSE IF ~IsSome(table.syntax) THEN h
        ELSE LET body == PsiTableSyntaxWriteTo(table.syntax[1])
             IN  Ok(h.val \o body \o CrcBytes(Call("SectionCrcOnWrite", <<h.val, body>>)), << >>)

RECURSIVE PsiReadTables(_, _)
\* The loop of Psi::read_from.
PsiReadTables(bytes, tables) ==
    IF bytes = << >> THEN Ok(tables, << >>)
    ELSE IF tables # << >> /\ bytes[1] = 255
    THEN LET st == Call("ConsumeStuffingBytes", <<Tail(bytes)>>)
         IN  IF ~IsOk(st) THEN st ELSE Ok(tables, << >>)
    ELSE LET t == Call("PsiTableReadFrom", <<bytes>>)
         IN  IF ~IsOk(t) THEN t
             ELSE PsiReadTables(t.rest, Append(tables, t.val))

\* Psi::read_from
PsiReadFrom(bytes) ==
    LET p == ReadU8(bytes)
    IN  IF ~IsOk(p) THEN p
        ELSE IF p.val # 0 THEN Err("Unsupported", p.rest)
        ELSE Call("PsiReadTables", <<p.rest, << >>>>)

RECURSIVE PsiWriteTables(_)
PsiWriteTables(tables) ==
    IF tables = << >> THEN Ok(<< >>, << >>)
    ELSE LET t == Call("PsiTableWriteTo", <<tables[1]>>)
         IN  IF ~IsOk(t) THEN t
             ELSE LET more == PsiWriteTables(Tail(tables))
                  IN  [more EXCEPT !.val = t.val \o more.val]

\* Psi::write_to: the pointer field, then the tables.
PsiWriteTo(tables) ==
    LET t == Call("PsiWriteTables", <<tables>>)
    IN  [t EXCEPT !.val = <<0>> \o t.val]

\* The checks Pat::read_from and Pmt::read_from make on the PSI they have read.
SingleTable(psi, table_id) ==
    IF Len(psi) # 1 THEN FALSE
    ELSE LET table == psi[1]
         IN  /\ table.header.table_id = table_id
             /\ ~table.header.private_bit
             /\ IsSome(table.syntax)
             /\ table.syntax[1].section_number = 0
             /\ table.syntax[1].last_section_number = 0
             /\ table.syntax[1].current_next_indicator

-----------------------------------------------------------------------------
(* src/src/ts/pat.rs *)

PatTableId == 0

\* ProgramAssociation::read_from
ProgramAssociationReadFrom(bytes) ==
    LET n == ReadU16(bytes)
    IN  IF ~IsOk(n) THEN n
        ELSE LET p == Call("PidReadFrom", <<n.rest>>)
             IN  IF ~IsOk(p) THEN p
                 ELSE Ok([program_num |-> n.val, program_map_pid |-> p.val], p.rest)

\* ProgramAssociation::write_to
ProgramAssociationWriteTo(pa) == WriteU16(pa.program_num) \o PidWriteTo(pa.program_map_pid)

RECURSIVE PatReadEntries(_, _)
PatReadEntries(bytes, table) ==
    IF bytes = << >> THEN Ok(table, << >>)
    ELSE LET e == Call("ProgramAssociationReadFrom", <<bytes>>)
         IN  IF ~IsOk(e) THEN e ELSE PatReadEntries(e.rest, Append(table, e.val))

\* Pat::read_from
PatReadFrom(bytes) ==
    LET psi == Call("PsiReadFrom", <<bytes>>)
    IN  IF ~IsOk(psi) THEN psi
        ELSE IF ~SingleTable(psi.val, PatTableId) THEN Err("InvalidInput", psi.rest)
        ELSE LET syntax == psi.val[1].syntax[1]
                 t == Call("PatReadEntries", <<syntax.table_data, << >>>>)
             IN  IF ~IsOk(t) THEN Err(t.err, psi.rest)
                 ELSE Ok([kind |-> "Pat",
                          transport_stream_id |-> syntax.table_id_extension,
                          version_number |-> syntax.version_number,
                          table |-> t.val], psi.rest)

RECURSIVE Flatten(_)
Flatten(seqs) == IF seqs = << >> THEN << >> ELSE seqs[1] \o Flatten(Tail(seqs))

\* Pat::to_psi and Psi::write_to
PatWriteTo(pat) ==
    Call("PsiWriteTo", <<<<[header |-> [table_id |-> PatTableId, private_bit |-> FALSE],
                  syntax |-> Some([table_id_extension     |-> pat.transport_stream_id,
                                   version_number         |-> pat.version_number,
                                   current_next_indicator |-> TRUE,
                                   section_number         |-> 0,
                                   last_section_number    |-> 0,
                                   table_data |->
                                       Flatten([i \in 1..Len(pat.table) |->
                                           ProgramAssociationWriteTo(pat.table[i])])])]>>>>)

-----------------------------------------------------------------------------
(* src/src/es/stream_type.rs *)

StreamTypeValues ==
    (1..27) \cup {36, 66} \cup (128..135) \cup {144, 145, 192, 193, 194, 207, 209, 219, 234}

\* StreamType::from_u8
StreamTypeFromU8(n) ==
    IF n \in StreamTypeValues THEN Ok(n, << >>) ELSE Err("InvalidInput", << >>)

-----------------------------------------------------------------------------
(* src/src/ts/pmt.rs *)

PmtTableId == 2

\* Descriptor::read_from
DescriptorReadFrom(bytes) ==
    LET tag == ReadU8(bytes)
    IN  IF ~IsOk(tag) THEN tag
        ELSE LET len == ReadU8(tag.rest)
             IN  IF ~IsOk(len) THEN len
                 ELSE LET data == ReadExact(len.rest, len.val)
                      IN  IF ~IsOk(data) THEN data
                          ELSE Ok([tag |-> tag.val, data |-> data.val], data.rest)

\* Descriptor::write_to: the length byte is data.len() as u8.
DescriptorWriteTo(d) == <<d.tag, Len(d.data) % 256>> \o d.data

RECURSIVE DescriptorsReadFrom(_, _)
\* The "while !reader.is_empty()" and "while reader.limit() > 0" descriptor loops.
DescriptorsReadFrom(bytes, acc) ==
    IF bytes = << >> THEN Ok(acc, << >>)
    ELSE LET d == Call("DescriptorReadFrom", <<bytes>>)
         IN  IF ~IsOk(d) THEN d ELSE DescriptorsReadFrom(d.rest, Append(acc, d.val))

DescriptorsLen(ds) ==
    LET RECURSIVE sum(_)
        sum(i) == IF i = 0 THEN 0 ELSE Len(ds[i].data) + 2 + sum(i - 1)
    IN  sum(Len(ds))

DescriptorsWriteTo(ds) == Flatten([i \in 1..Len(ds) |-> DescriptorWriteTo(ds[i])])

\* The 16-bit word holding four reserved bits, two unused bits and a 10-bit length.
LengthWordReadFrom(bytes) ==
    LET n == ReadU16(bytes)
    IN  IF ~IsOk(n) THEN n
        ELSE IF n.val \div 4096 # 15 THEN Err("InvalidInput", n.rest)
        ELSE IF (n.val \div 1024) % 4 # 0 THEN Err("InvalidInput", n.rest)
        ELSE Ok(n.val % 1024, n.rest)

\* EsInfo::read_from
EsInfoReadFrom(bytes) ==
    LET b == ReadU8(bytes)
    IN  IF ~IsOk(b) THEN b
        ELSE
        LET st == StreamTypeFromU8(b.val)
        IN  IF ~IsOk(st) THEN Err(st.err, b.rest)
            ELSE
            LET pid == Call("PidReadFrom", <<b.rest>>)
            IN  IF ~IsOk(pid) THEN pid
                ELSE
                LET n == Call("LengthWordReadFrom", <<pid.rest>>)
                IN  IF ~IsOk(n) THEN n
                    ELSE
                    LET avail == IF n.val < Len(n.rest) THEN n.val ELSE Len(n.rest)
                        ds == Within(Call("DescriptorsReadFrom", <<Take(n.rest, n.val), << >>>>),
                                     n.rest, n.val)
                    IN  IF ~IsOk(ds) THEN ds
                        ELSE IF avail < n.val THEN Err("Other", << >>)
                        ELSE Ok([stream_type    |-> st.val,
                                 elementary_pid |-> pid.val,
                                 descriptors    |-> ds.val], ds.rest)

\* EsInfo::write_to
EsInfoWriteTo(info) ==
    LET head == <<info.stream_type>> \o PidWriteTo(info.elementary_pid)
        es_info_len == DescriptorsLen(info.descriptors)
    IN  IF es_info_len > 1023 THEN Err("InvalidInput", << >>)
        ELSE Ok(head \o WriteU16(61440 + es_info_len)
                \o DescriptorsWriteTo(info.descriptors), << >>)

RECURSIVE EsInfosReadFrom(_, _)
EsInfosReadFrom(bytes, acc) ==
    IF bytes = << >> THEN Ok(acc, << >>)
    ELSE LET e == Call("EsInfoReadFrom", <<bytes>>)
         IN  IF ~IsOk(e) THEN e ELSE EsInfosReadFrom(e.rest, Append(acc, e.val))

RECURSIVE EsInfosWriteTo(_)
EsInfosWriteTo(infos) ==
    IF infos = << >> THEN Ok(<< >>, << >>)
    ELSE LET e == Call("EsInfoWriteTo", <<infos[1]>>)
         IN  IF ~IsOk(e) THEN e
             ELSE LET more == EsInfosWriteTo(Tail(infos))
                  IN  [more EXCEPT !.val = e.val \o more.val]

\* The body of Pmt::read_from after the PSI checks, on syntax.table_data.
PmtReadBody(syntax) ==
    LET p == Call("PidReadFrom", <<syntax.table_data>>)
    IN  IF ~IsOk(p) THEN p
        ELSE
        LET n == Call("LengthWordReadFrom", <<p.rest>>)
        IN  IF ~IsOk(n) THEN n
            \* slice::split_at panics when the index is past the end
            ELSE IF n.val > Len(n.rest) THEN Err("Panic", << >>)
            ELSE
            LET program_info == Call("DescriptorsReadFrom", <<Take(n.rest, n.val), << >>>>)
            IN  IF ~IsOk(program_info) THEN program_info
                ELSE
                LET es_info == Call("EsInfosReadFrom", <<Drop(n.rest, n.val), << >>>>)
                IN  IF ~IsOk(es_info) THEN es_info
                    ELSE Ok([kind |-> "Pmt",
                             program_num    |-> syntax.table_id_extension,
                             pcr_pid        |-> IF p.val = 8191 THEN None ELSE Some(p.val),
                             version_number |-> syntax.version_number,
                             program_info   |-> program_info.val,
                             es_info        |-> es_info.val], << >>)

\* Pmt::read_from
PmtReadFrom(bytes) ==
    LET psi == Call("PsiReadFrom", <<bytes>>)
    IN  IF ~IsOk(psi) THEN psi
        ELSE IF ~SingleTable(psi.val, PmtTableId) THEN Err("InvalidInput", psi.rest)
        ELSE LET body == Call("PmtReadBody", <<psi.val[1].syntax[1]>>)
             IN  [body EXCEPT !.rest = psi.rest]

\* Pmt::to_psi: the table data.
PmtTableData(pmt) ==
    IF IsSome(pmt.pcr_pid) /\ pmt.pcr_pid[1] = 8191 THEN Err("InvalidInput", << >>)
    ELSE
    LET head == IF IsSome(pmt.pcr_pid) THEN PidWriteTo(pmt.pcr_pid[1]) ELSE WriteU16(65535)
        program_info_len == DescriptorsLen(pmt.program_info)
    IN  IF program_info_len > 1023 THEN Err("InvalidInput", << >>)
        ELSE
        LET es == Call("EsInfosWriteTo", <<pmt.es_info>>)
        IN  IF ~IsOk(es) THEN es
            ELSE Ok(head \o WriteU16(61440 + program_info_len)
                    \o DescriptorsWriteTo(pmt.program_info) \o es.val, << >>)

\* Pmt::write_to
PmtWriteTo(pmt) ==
    LET table_data == Call("PmtTableData", <<pmt>>)
    IN  IF ~IsOk(table_data) THEN table_data
        ELSE Call("PsiWriteTo", <<<<[header |-> [table_id |-> PmtTableId, private_bit |-> FALSE],
                           syntax |-> Some([table_id_extension     |-> pmt.program_num,
                                            version_number         |-> pmt.version_number,
                                            current_next_indicator |-> TRUE,
                                            section_number         |-> 0,
                                            last_section_number    |-> 0,
                                            table_data |-> table_data.val])]>>>>)

-----------------------------------------------------------------------------
(* src/src/pes/packet.rs and src/src/ts/pes.rs *)

\* PesHeader::optional_header_len
optional_header_len(h) ==
    3 + (IF IsSome(h.pts) THEN 5 ELSE 0) + (IF IsSome(h.dts) THEN 5 ELSE 0)
      + (IF IsSome(h.escr) THEN 6 ELSE 0)

\* The optional fields of PesHeader::read_from, on the take of pes_header_len bytes.
PesOptionalFieldsReadFrom(bytes, pts_flag, dts_flag, escr_flag) ==
    LET pts == IF pts_flag
               THEN Call("TimestampReadFrom", <<bytes, IF dts_flag THEN 3 ELSE 2>>)
               ELSE Ok(<< >>, bytes)
    IN  IF ~IsOk(pts) THEN pts
        ELSE
        LET dts == IF dts_flag THEN Call("TimestampReadFrom", <<pts.rest, 1>>) ELSE Ok(<< >>, pts.rest)
        IN  IF ~IsOk(dts) THEN dts
            ELSE
            LET escr == IF escr_flag THEN Call("ReadEscrFrom", <<dts.rest>>) ELSE Ok(<< >>, dts.rest)
            IN  IF ~IsOk(escr) THEN escr
                ELSE
                LET st == Call("ConsumeStuffingBytes", <<escr.rest>>)
                IN  IF ~IsOk(st) THEN st
                    ELSE Ok([pts  |-> IF pts_flag THEN Some(pts.val) ELSE None,
                             dts  |-> IF dts_flag THEN Some(dts.val) ELSE None,
                             escr |-> IF escr_flag THEN Some(escr.val) ELSE None], << >>)

\* PesHeader::read_from: <<header, packet_len>>.
PesHeaderReadFrom(bytes) ==
    LET prefix == ReadExact(bytes, 3)
    IN  IF ~IsOk(prefix) THEN prefix
        ELSE IF prefix.val # <<0, 0, 1>> THEN Err("InvalidInput", prefix.rest)
        ELSE
        LET fixed == ReadExact(prefix.rest, 6)
            \* stream_id, packet_len (2), flags, flags, pes_header_len
            have  == Len(prefix.rest)
            b1    == prefix.rest[4]
            b2    == prefix.rest[5]
            bit(b, k) == (b \div (2 ^ k)) % 2 = 1
        IN  IF have < 4 THEN Err("Other", << >>)
            ELSE IF b1 \div 64 # 2 THEN Err("InvalidInput", Drop(prefix.rest, 4))
            ELSE IF (b1 \div 16) % 4 # 0 THEN Err("Unsupported", Drop(prefix.rest, 4))
            ELSE IF have < 5 THEN Err("Other", << >>)
            ELSE IF ~bit(b2, 7) /\ bit(b2, 6) THEN Err("InvalidInput", Drop(prefix.rest, 5))
            ELSE IF b2 % 32 # 0 THEN Err("Unsupported", Drop(prefix.rest, 5))
            ELSE IF ~IsOk(fixed) THEN fixed
            ELSE
            LET stream_id      == fixed.val[1]
                packet_len     == fixed.val[2] * 256 + fixed.val[3]
                pes_header_len == fixed.val[6]
                opt == Within(Call("PesOptionalFieldsReadFrom", <<Take(fixed.rest, pes_header_len),
                                                        bit(b2, 7), bit(b2, 6), bit(b2, 5)>>),
                              fixed.rest, pes_header_len)
            IN  IF ~IsOk(opt) THEN opt
                ELSE Ok(<<[stream_id |-> stream_id,
                           priority  |-> bit(b1, 3),
                           data_alignment_indicator |-> bit(b1, 2),
                           copyright |-> bit(b1, 1),
                           original_or_copy |-> bit(b1, 0),
                           pts  |-> opt.val.pts,
                           dts  |-> opt.val.dts,
                           escr |-> opt.val.escr], packet_len>>, opt.rest)

\* PesHeader::write_to: the bytes written (val), also when it fails part-way.
PesHeaderWriteTo(h, pes_header_len) ==
    LET head == <<0, 0, 1, h.stream_id>> \o WriteU16(pes_header_len)
                \o <<128 + Flag(h.priority) * 8 + Flag(h.data_alignment_indicator) * 4
                         + Flag(h.copyright) * 2 + Flag(h.original_or_copy)>>
        flags == <<Flag(IsSome(h.pts)) * 128 + Flag(IsSome(h.dts)) * 64
                   + Flag(IsSome(h.escr)) * 32,
                   optional_header_len(h) - 3>>
        pts  == IF IsSome(h.pts)
                THEN Call("TimestampWriteTo", <<h.pts[1], IF IsSome(h.dts) THEN 3 ELSE 2>>)
                ELSE Ok(<< >>, << >>)
        dts  == IF IsSome(h.dts) THEN Call("TimestampWriteTo", <<h.dts[1], 1>>) ELSE Ok(<< >>, << >>)
        escr == IF IsSome(h.escr) THEN Call("WriteEscrTo", <<h.escr[1]>>) ELSE Ok(<< >>, << >>)
    IN  IF IsSome(h.dts) /\ ~IsSome(h.pts) THEN [Err("InvalidInput", << >>) EXCEPT !.val = head]
        ELSE IF ~IsOk(pts) THEN [pts EXCEPT !.val = head \o flags]
        ELSE IF ~IsOk(dts) THEN [dts EXCEPT !.val = head \o flags \o pts.val]
        ELSE IF ~IsOk(escr) THEN [escr EXCEPT !.val = head \o flags \o pts.val \o dts.val]
        ELSE Ok(head \o flags \o pts.val \o dts.val \o escr.val, << >>)

\* Pes::read_from
PesReadFrom(bytes) ==
    LET h == Call("PesHeaderReadFrom", <<bytes>>)
    IN  IF ~IsOk(h) THEN h
        ELSE LET data == Call("BytesReadFrom", <<h.rest>>)
             IN  Ok([kind |-> "Pes", header |-> h.val[1], pes_packet_len |-> h.val[2],
                     data |-> data.val], data.rest)

\* Pes::write_to
PesWriteTo(pes) ==
    LET h == Call("PesHeaderWriteTo", <<pes.header, pes.pes_packet_len>>)
    IN  IF ~IsOk(h) THEN h ELSE Ok(h.val \o pes.data, << >>)

-----------------------------------------------------------------------------
(* src/src/ts/packet.rs *)

SyncByte == 71

\* TsHeader::read_from: <<header, adaptation_field_control, payload_unit_start_indicator>>.
TsHeaderReadFrom(bytes) ==
    LET s == ReadU8(bytes)
    IN  IF ~IsOk(s) THEN s
        ELSE IF s.val # SyncByte THEN Err("InvalidInput", s.rest)
        ELSE
        LET n == ReadU16(s.rest)
        IN  IF ~IsOk(n) THEN n
            ELSE
            LET pid == PidNew(n.val % 8192)
                b   == ReadU8(n.rest)
            IN  IF ~IsOk(pid) THEN Err(pid.err, n.rest)
                ELSE IF ~IsOk(b) THEN b
                ELSE
                LET tsc == TransportScramblingControlFromU8(b.val \div 64)
                    afc == AdaptationFieldControlFromU8((b.val \div 16) % 4)
                    cc  == ContinuityCounterFromU8(b.val % 16)
                IN  IF ~IsOk(tsc) THEN Err(tsc.err, b.rest)
                    ELSE IF ~IsOk(afc) THEN Err(afc.err, b.rest)
                    ELSE IF ~IsOk(cc) THEN Err(cc.err, b.rest)
                    ELSE Ok(<<[transport_error_indicator |-> n.val \div 32768 = 1,
                               transport_priority |-> (n.val \div 8192) % 2 = 1,
                               pid |-> pid.val,
                               transport_scrambling_control |-> tsc.val,
                               continuity_counter |-> cc.val],
                              afc.val,
                              (n.val \div 16384) % 2 = 1>>, b.rest)

\* TsHeader::write_to
TsHeaderWriteTo(h, adaptation_field_control, payload_unit_start_indicator) ==
    <<SyncByte>>
    \o WriteU16(Flag(h.transport_error_indicator) * 32768
                + Flag(payload_unit_start_indicator) * 16384
                + Flag(h.transport_priority) * 8192 + h.pid)
    \o <<h.transport_scrambling_control * 64 + adaptation_field_control * 16
         + h.continuity_counter>>

\* TsPayload::write_to
TsPayloadWriteTo(payload) ==
    CASE payload.kind = "Pat"  -> Call("PatWriteTo", <<payload>>)
      [] payload.kind = "Pmt"  -> Call("PmtWriteTo", <<payload>>)
      [] payload.kind = "Pes"  -> Call("PesWriteTo", <<payload>>)
      [] payload.kind = "Null" -> Ok(<< >>, << >>)
      [] payload.kind = "Raw"  -> Ok(payload.data, << >>)

\* The payload written through the Cursor over the TsPacket::SIZE - 4 byte scratch
\* buffer: write_all fails (an I/O error) once the buffer is full.
PayloadBuf(payload) ==
    LET w == Call("TsPayloadWriteTo", <<payload>>)
    IN  IF IsOk(w) /\ Len(w.val) > TsPacketSize - 4 THEN Err("Other", << >>) ELSE w

\* TsPacket::write_to: val is what has reached the writer, also when it fails.
TsPacketWriteTo(packet) ==
    LET buf == IF IsSome(packet.payload) THEN Call("PayloadBuf", <<packet.payload[1]>>)
               ELSE Ok(<< >>, << >>)
    IN  IF ~IsOk(buf) THEN Err(buf.err, << >>)
        ELSE
        LET payload_len  == Len(buf.val)
            required_len == IF IsSome(packet.adaptation_field)
                            THEN ExternalSize(packet.adaptation_field[1]) ELSE 0
            free_len     == TsPacketSize - 4 - payload_len
            has_field    == IsSome(packet.adaptation_field) \/ free_len > 0
            adaptation_field_control ==
                IF has_field /\ IsSome(packet.payload) THEN AdaptationFieldAndPayload
                ELSE IF has_field THEN AdaptationFieldOnly
                ELSE PayloadOnly
            payload_unit_start_indicator ==
                IsSome(packet.payload) /\ packet.payload[1].kind \notin {"Raw", "Null"}
            header == TsHeaderWriteTo(packet.header, adaptation_field_control,
                                      payload_unit_start_indicator)
            field  == IF IsSome(packet.adaptation_field)
                      THEN Call("AdaptationFieldWriteTo", <<packet.adaptation_field[1], free_len - 1>>)
                      ELSE IF free_len > 0 THEN Call("WriteStuffingField", <<free_len - 1>>)
                      ELSE Ok(<< >>, << >>)
        IN  IF required_len > free_len THEN Err("InvalidInput", << >>)
            ELSE IF ~has_field /\ ~IsSome(packet.payload) THEN Err("InvalidInput", << >>)
            ELSE IF ~IsOk(field) THEN [field EXCEPT !.val = header \o field.val]
            ELSE Ok(header \o field.val \o buf.val, << >>)

-----------------------------------------------------------------------------
(* src/src/ts/reader.rs *)

\* Insertion that keeps the value of a key the map already holds.
InsertAllKeep(m, keys, kind) ==
    [p \in DOMAIN m \cup keys |-> IF p \in DOMAIN m THEN m[p] ELSE kind]

\* Insertion into a map made anew for the packet.
InsertAllFresh(m, keys, kind) == [p \in keys |-> kind]

\* HashMap::insert of every key of `keys` with the value `kind`.
InsertAll(m, keys, kind) ==
    [p \in DOMAIN m \cup keys |-> IF p \in keys THEN kind ELSE m[p]]

\* Null::read_from
NullReadFrom(bytes) ==
    LET b == Call("BytesReadFrom", <<bytes>>) IN Ok([kind |-> "Null"], b.rest)

\* The payload match with a PID the map does not hold taken as raw bytes.
ReadPayloadLenient(m, pid, payload_unit_start_indicator, bytes) ==
    IF pid = PidPat
    THEN LET pat == Call("PatReadFrom", <<bytes>>)
         IN  [dispatch |-> "Pat", r |-> pat,
              pids |-> IF IsOk(pat)
                       THEN InsertAll(m, {pat.val.table[i].program_map_pid :
                                              i \in 1..Len(pat.val.table)}, "Pmt")
                       ELSE m]
    ELSE IF pid = PidNull
    THEN [dispatch |-> "Null", r |-> Call("NullReadFrom", <<bytes>>), pids |-> m]
    ELSE IF pid \notin DOMAIN m
    THEN LET b == Call("BytesReadFrom", <<bytes>>)
         IN  [dispatch |-> "Raw", r |-> Ok([kind |-> "Raw", data |-> b.val], b.rest),
              pids |-> m]
    ELSE IF m[pid] = "Pmt"
    THEN LET pmt == Call("PmtReadFrom", <<bytes>>)
         IN  [dispatch |-> "Pmt", r |-> pmt,
              pids |-> IF IsOk(pmt)
                       THEN InsertAll(m, {pmt.val.es_info[i].elementary_pid :
                                              i \in 1..Len(pmt.val.es_info)}, "Pes")
                       ELSE m]
    ELSE IF payload_unit_start_indicator
    THEN [dispatch |-> "Pes", r |-> Call("PesReadFrom", <<bytes>>), pids |-> m]
    ELSE LET b == Call("BytesReadFrom", <<bytes>>)
         IN  [dispatch |-> "Raw", r |-> Ok([kind |-> "Raw", data |-> b.val], b.rest),
              pids |-> m]

\* The payload match of read_ts_packet: the decoder chosen for the PID (dispatch),
\* its result on the rest of the 188-byte region, and the PID map afterwards.
ReadPayload(m, pid, payload_unit_start_indicator, bytes) ==
    IF pid = PidPat
    THEN LET pat == Call("PatReadFrom", <<bytes>>)
         IN  [dispatch |-> "Pat", r |-> pat,
              pids |-> IF IsOk(pat)
                       THEN InsertAll(m, {pat.val.table[i].program_map_pid :
                                              i \in 1..Len(pat.val.table)}, "Pmt")
                       ELSE m]
    ELSE IF pid = PidNull
    THEN [dispatch |-> "Null", r |-> Call("NullReadFrom", <<bytes>>), pids |-> m]
    ELSE IF pid \notin DOMAIN m
    THEN [dispatch |-> "Unknown", r |-> Err("InvalidInput", bytes), pids |-> m]
    ELSE IF m[pid] = "Pmt"
    THEN LET pmt == Call("PmtReadFrom", <<bytes>>)
         IN  [dispatch |-> "Pmt", r |-> pmt,
              pids |-> IF IsOk(pmt)
                       THEN InsertAll(m, {pmt.val.es_info[i].elementary_pid :
                                              i \in 1..Len(pmt.val.es_info)}, "Pes")
                       ELSE m]
    ELSE IF payload_unit_start_indicator
    THEN [dispatch |-> "Pes", r |-> Call("PesReadFrom", <<bytes>>), pids |-> m]
    ELSE LET b == Call("BytesReadFrom", <<bytes>>)
         IN  [dispatch |-> "Raw", r |-> Ok([kind |-> "Raw", data |-> b.val], b.rest),
              pids |-> m]

\* The limit counted against the bytes the source had, not against 188.
LimitWithinRegion(region, rest) == Len(rest)

\* reader.limit() after the header, the adaptation field and the payload were
\* read: what take(TsPacket::SIZE) still allows, whether the source has it or not.
Limit(region, rest) == TsPacketSize - (Len(region) - Len(rest))

\* TsPacketReader::read_ts_packet on the stream s with the PID map m: the result
\* (val = None at the end of the stream, Some(packet) otherwise), the stream left
\* (rest), the PID map afterwards and the payload decoder reached.
ReadTsPacket(s, m) ==
    IF s = << >>
    THEN [err |-> "Ok", val |-> None, rest |-> s, pids |-> m, dispatch |-> "Eos"]
    ELSE
    LET region == Take(s, TsPacketSize)
        after  == Drop(s, TsPacketSize)
        fail(r, d) == [err |-> r.err, val |-> << >>, rest |-> r.rest \o after,
                       pids |-> m, dispatch |-> d]
        h == Call("TsHeaderReadFrom", <<region>>)
    IN  IF ~IsOk(h) THEN fail(h, "Header")
        ELSE
        LET header == h.val[1]
            adaptation_field_control == h.val[2]
            payload_unit_start_indicator == h.val[3]
            af == IF HasAdaptationField(adaptation_field_control)
                  THEN Call("AdaptationFieldReadFrom", <<h.rest>>)
                  ELSE Ok(None, h.rest)
        IN  IF ~IsOk(af) THEN fail(af, "AdaptationField")
            ELSE IF ~HasPayload(adaptation_field_control)
            THEN IF Limit(region, af.rest) # 0
                 THEN [fail(Err("InvalidInput", af.rest), "NoPayload") EXCEPT !.pids = m]
                 ELSE [err |-> "Ok",
                       val |-> Some([header |-> header, adaptation_field |-> af.val,
                                     payload |-> None]),
                       rest |-> after, pids |-> m, dispatch |-> "NoPayload"]
            ELSE
            LET p == Call("ReadPayload", <<m, header.pid, payload_unit_start_indicator, af.rest>>)
            IN  IF ~IsOk(p.r) THEN [fail(p.r, p.dispatch) EXCEPT !.pids = p.pids]
                \* track_assert_eq!(reader.limit(), 0): the whole region was consumed
                ELSE IF Limit(region, p.r.rest) # 0
                THEN [fail(Err("InvalidInput", p.r.rest), p.dispatch) EXCEPT !.pids = p.pids]
                ELSE [err |-> "Ok",
                      val |-> Some([header |-> header, adaptation_field |-> af.val,
                                    payload |-> Some(p.r.val)]),
                      rest |-> after, pids |-> p.pids, dispatch |-> p.dispatch]

-----------------------------------------------------------------------------
(* The dispatch table of the codecs.                                       *)

Call(f, a) ==
    CASE f = "TimestampReadFrom" -> TimestampReadFrom(a[1], a[2])
      [] f = "TimestampWriteTo" -> TimestampWriteTo(a[1], a[2])
      [] f = "PidReadFrom" -> PidReadFrom(a[1])
      [] f = "BytesReadFrom" -> BytesReadFrom(a[1])
      [] f = "LegalTimeWindowReadFrom" -> LegalTimeWindowReadFrom(a[1])
      [] f = "PiecewiseRateReadFrom" -> PiecewiseRateReadFrom(a[1])
      [] f = "PiecewiseRateWriteTo" -> PiecewiseRateWriteTo(a[1])
      [] f = "SeamlessSpliceReadFrom" -> SeamlessSpliceReadFrom(a[1])
      [] f = "SeamlessSpliceWriteTo" -> SeamlessSpliceWriteTo(a[1])
      [] f = "ExtensionReadBody" -> ExtensionReadBody(a[1])
      [] f = "ExtensionReadFrom" -> ExtensionReadFrom(a[1])
      [] f = "ExtensionWriteTo" -> ExtensionWriteTo(a[1])
      [] f = "PrivateDataReadFrom" -> PrivateDataReadFrom(a[1])
      [] f = "AdaptationFieldReadBody" -> AdaptationFieldReadBody(a[1])
      [] f = "AdaptationFieldReadFrom" -> AdaptationFieldReadFrom(a[1])
      [] f = "AdaptationFieldWriteTo" -> AdaptationFieldWriteTo(a[1], a[2])
      [] f = "PsiTableHeaderReadFrom" -> PsiTableHeaderReadFrom(a[1])
      [] f = "PsiTableHeaderWriteTo" -> PsiTableHeaderWriteTo(a[1], a[2])
      [] f = "PsiTableSyntaxReadFrom" -> PsiTableSyntaxReadFrom(a[1])
      [] f = "PsiTableReadFrom" -> PsiTableReadFrom(a[1])
      [] f = "PsiTableWriteTo" -> PsiTableWriteTo(a[1])
      [] f = "PsiReadTables" -> PsiReadTables(a[1], a[2])
      [] f = "PsiReadFrom" -> PsiReadFrom(a[1])
      [] f = "PsiWriteTables" -> PsiWriteTables(a[1])
      [] f = "PsiWriteTo" -> PsiWriteTo(a[1])
      [] f = "ProgramAssociationReadFrom" -> ProgramAssociationReadFrom(a[1])
      [] f = "PatReadEntries" -> PatReadEntries(a[1], a[2])
      [] f = "PatReadFrom" -> PatReadFrom(a[1])
      [] f = "PatWriteTo" -> PatWriteTo(a[1])
      [] f = "DescriptorReadFrom" -> DescriptorReadFrom(a[1])
      [] f = "DescriptorsReadFrom" -> DescriptorsReadFrom(a[1], a[2])
      [] f = "LengthWordReadFrom" -> LengthWordReadFrom(a[1])
      [] f = "EsInfoReadFrom" -> EsInfoReadFrom(a[1])
      [] f = "EsInfoWriteTo" -> EsInfoWriteTo(a[1])
      [] f = "EsInfosReadFrom" -> EsInfosReadFrom(a[1], a[2])
      [] f = "EsInfosWriteTo" -> EsInfosWriteTo(a[1])
      [] f = "PmtReadBody" -> PmtReadBody(a[1])
      [] f = "PmtReadFrom" -> PmtReadFrom(a[1])
      [] f = "PmtWriteTo" -> PmtWriteTo(a[1])
      [] f = "PesOptionalFieldsReadFrom" -> PesOptionalFieldsReadFrom(a[1], a[2], a[3], a[4])
      [] f = "PesHeaderReadFrom" -> PesHeaderReadFrom(a[1])
      [] f = "PesHeaderWriteTo" -> PesHeaderWriteTo(a[1], a[2])
      [] f = "PesReadFrom" -> PesReadFrom(a[1])
      [] f = "PesWriteTo" -> PesWriteTo(a[1])
      [] f = "TsHeaderReadFrom" -> TsHeaderReadFrom(a[1])
      [] f = "TsPayloadWriteTo" -> TsPayloadWriteTo(a[1])
      [] f = "TsPacketWriteTo" -> TsPacketWriteTo(a[1])
      [] f = "NullReadFrom" -> NullReadFrom(a[1])
      [] f = "ReadPcrFrom" -> ReadPcrFrom(a[1])
      [] f = "WritePcrTo" -> WritePcrTo(a[1])
      [] f = "ReadEscrFrom" -> ReadEscrFrom(a[1])
      [] f = "WriteEscrTo" -> WriteEscrTo(a[1])
      [] f = "WriteUint" -> WriteUint(a[1], a[2])
      [] f = "TimestampFromBits" -> TimestampFromBits(a[1])
      [] f = "ConsumeStuffingBytes" -> ConsumeStuffingBytes(a[1])
      [] f = "WriteStuffingBytes" -> WriteStuffingBytes(a[1])
      [] f = "WriteStuffingField" -> WriteStuffingField(a[1])
      [] f = "Crc32" -> Crc32(a[1])
      [] f = "SectionCrcOnRead" -> SectionCrcOnRead(a[1], a[2])
      [] f = "SectionCrcOnWrite" -> SectionCrcOnWrite(a[1], a[2])
      [] f = "PmtTableData" -> PmtTableData(a[1])
      [] f = "PayloadBuf" -> PayloadBuf(a[1])
      [] f = "ReadPayload" -> ReadPayload(a[1], a[2], a[3], a[4])
      [] f = "ReadTsPacket" -> ReadTsPacket(a[1], a[2])
      [] f = "TimestampNew" -> TimestampNew(a[1])
      [] f = "ClockReferenceNew" -> ClockReferenceNew(a[1])

-----------------------------------------------------------------------------
(* Input packets.  The byte vectors of the tests of src/src/ts/mod.rs, and  *)
(* packets of the other kinds, given as values and serialized.             *)

Stuffed(bytes) == bytes \o [i \in 1..(TsPacketSize - Len(bytes)) |-> 255]

\* pat_packet_bytes()
PatPacketBytes ==
    Stuffed(<<71, 64, 0, 17, 0, 0, 176, 13, 0, 0, 195, 0, 0, 0, 1, 225, 224,
              232, 95, 116, 236>>)

\* pmt_packet_bytes()
PmtPacketBytes ==
    Stuffed(<<71, 65, 224, 48, 0, 0, 2, 176, 34, 0, 1, 193, 0, 0, 225, 2, 240, 6, 5, 4,
              67, 85, 69, 73, 134, 225, 3, 240, 0, 15, 225, 1, 240, 0, 27, 225, 2, 240, 0,
              225, 243, 90, 60>>)

\* pid17_packet_bytes()
Pid17PacketBytes ==
    <<71, 64, 17, 16, 0, 66, 240, 42, 0, 1, 193, 0, 0, 0, 1, 255, 0, 1, 252, 128, 25, 72,
      23, 1, 6, 70, 70, 109, 112, 101, 103, 14, 66, 105, 103, 32, 66, 117, 99, 107, 32, 66,
      117, 110, 110, 121, 182, 64, 83, 76>>
    \o [i \in 1..137 |-> 255] \o <<25>>

\* TsHeader values
Header(pid, cc) ==
    [transport_error_indicator |-> FALSE, transport_priority |-> FALSE, pid |-> pid,
     transport_scrambling_control |-> 0, continuity_counter |-> cc]

\* AdaptationField values
Field0 ==
    [discontinuity_indicator |-> FALSE, random_access_indicator |-> FALSE,
     es_priority_indicator |-> FALSE, pcr |-> None, opcr |-> None,
     splice_countdown |-> None, transport_private_data |-> << >>, extension |-> None]

FieldPcr == [Field0 EXCEPT !.random_access_indicator = TRUE, !.pcr = Some(Limbs(10000))]

FieldPrivate(data) == [Field0 EXCEPT !.transport_private_data = data]

FieldFull ==
    [Field0 EXCEPT !.discontinuity_indicator = TRUE,
                   !.pcr = Some(Limbs(27000)), !.opcr = Some(Limbs(301)),
                   !.splice_countdown = Some(3),
                   !.extension = Some([legal_time_window |-> Some([is_valid |-> TRUE,
                                                                   offset |-> 5]),
                                       piecewise_rate |-> Some(1000),
                                       seamless_splice |-> Some([splice_type |-> 2,
                                           dts_next_access_unit |-> <<1, 2>>])])]

\* PesHeader values
PesHeaderOf(pts, dts, escr) ==
    [stream_id |-> 224, priority |-> FALSE, data_alignment_indicator |-> TRUE,
     copyright |-> FALSE, original_or_copy |-> TRUE, pts |-> pts, dts |-> dts, escr |-> escr]

\* TsPayload values
PatOf(table) ==
    [kind |-> "Pat", transport_stream_id |-> 0, version_number |-> 1, table |-> table]

PmtOf(es_info) ==
    [kind |-> "Pmt", program_num |-> 1, pcr_pid |-> Some(258), version_number |-> 0,
     program_info |-> <<[tag |-> 5, data |-> <<67, 85, 69, 73>>]>>, es_info |-> es_info]

PesOf(header, pes_packet_len, data) ==
    [kind |-> "Pes", header |-> header, pes_packet_len |-> pes_packet_len, data |-> data]

RawOf(data) == [kind |-> "Raw", data |-> data]

NullPayload == [kind |-> "Null"]

TsPacketOf(header, adaptation_field, payload) ==
    [header |-> header, adaptation_field |-> adaptation_field, payload |-> payload]

\* The bytes TsPacket::write_to gives for a packet value.
Serialized(packet) == Call("TsPacketWriteTo", <<packet>>).val

\* The packets a reader's input stream is made of.
InputPackets ==
    <<PatPacketBytes,
      PmtPacketBytes,
      Pid17PacketBytes,
      \* a PES start and a continuation on elementary PID 257
      Serialized(TsPacketOf(Header(257, 0), None,
          Some(PesOf(PesHeaderOf(Some(Limbs(90000)), None, None), 11, <<1, 2>>)))),
      Serialized(TsPacketOf(Header(257, 1), None, Some(RawOf(<<3>>)))),
      \* a null packet
      Serialized(TsPacketOf(Header(PidNull, 0), None, Some(NullPayload))),
      \* a PAT that lists 257 as a program map PID
      Serialized(TsPacketOf(Header(PidPat, 2), None,
          Some(PatOf(<<[program_num |-> 2, program_map_pid |-> 257]>>)))),
      \* a PMT that lists 480 as an elementary PID
      Serialized(TsPacketOf(Header(480, 1), None,
          Some(PmtOf(<<[stream_type |-> 27, elementary_pid |-> 480,
                        descriptors |-> << >>]>>)))),
      \* an adaptation field and no payload, on a PID nothing has announced
      Serialized(TsPacketOf(Header(300, 0), Some(FieldPcr), None)),
      \* a packet that has lost its sync byte
      <<0>> \o Tail(PatPacketBytes)>>

-----------------------------------------------------------------------------
(* The TS packet reader: TsPacketReader::new over a stream of input        *)
(* packets, then read_ts_packet calls.                                     *)

MaxPackets == 3

\* The calls made on one reader in a run.
MaxCalls == 4

NoResult == [err |-> "NoCall", val |-> None]

ReaderIdle ==
    /\ stream = << >> /\ pids = << >> /\ result = NoResult
    /\ dispatch = "NoCall" /\ decoded = << >>

WriterIdle == sink = << >> /\ wresult = NoResult /\ okWrites = 0

PesIdle ==
    /\ ts_input = << >> /\ pes_packets = << >> /\ eos = FALSE /\ pes_result = NoResult
    /\ consumed = << >> /\ emitted = << >> /\ drained = None /\ reach = << >>

TripIdle == stream2 = << >> /\ pids2 = << >> /\ decoded2 = << >> /\ phase = "idle"

EsIdle ==
    /\ es_input = << >> /\ es_frames = << >> /\ es_pcr = << >>
    /\ es_result = NoResult /\ es_emitted = << >> /\ es_consumed = << >>

CodecIdle ==
    /\ origin = << >> /\ subject = << >> /\ wire = << >> /\ back = NoResult /\ step = "idle"

\* The streams of at most n packets of `packets`.
Streams(packets, n) ==
    {Flatten([i \in DOMAIN idx |-> packets[idx[i]]]) :
        idx \in UNION {[1..k -> 1..Len(packets)] : k \in 0..n}}

\* TsPacketReader::new
Init ==
    /\ stream \in Streams(InputPackets, MaxPackets)
    /\ pids = << >>
    /\ result = NoResult
    /\ dispatch = "NoCall"
    /\ decoded = << >>
    /\ calls = 0
    /\ WriterIdle /\ PesIdle /\ TripIdle /\ EsIdle /\ CodecIdle

\* A call of TsPacketReader::read_ts_packet.  A panic ends the program.
ReadTsPacketCall ==
    /\ calls < MaxCalls
    /\ result.err # "Panic"
    /\ LET r == Call("ReadTsPacket", <<stream, pids>>)
       IN  /\ stream' = r.rest
           /\ pids' = r.pids
           /\ result' = [err |-> r.err, val |-> r.val]
           /\ dispatch' = r.dispatch
           /\ decoded' = IF IsOk(r) /\ IsSome(r.val) THEN Append(decoded, r.val[1])
                         ELSE decoded
    /\ calls' = calls + 1
    /\ UNCHANGED <<writerVars, pesVars, tripVars, esVars, codecVars>>

Next == ReadTsPacketCall

Spec == Init /\ [][Next]_vars

-----------------------------------------------------------------------------
(* The TS packet writer: TsPacketWriter::new over an empty Vec<u8>, then    *)
(* write_ts_packet calls.                                                   *)

\* The write_ts_packet calls made on one writer in a run.
MaxWrites == 2

\* n bytes of payload data
RawBytes(n) == [i \in 1..n |-> i % 256]

\* A descriptor with as much data as its length byte can tell.
LongDescriptor == [tag |-> 10, data |-> RawBytes(255)]

\* The packets handed to the writer: every payload kind and no payload, each
\* with and without an adaptation field, payloads that leave 0, 1 and 2 free
\* bytes, and packets the writer has no room for.
WriterPackets ==
    {TsPacketOf(Header(PidPat, 1), None,
         Some(PatOf(<<[program_num |-> 1, program_map_pid |-> 480]>>))),
     TsPacketOf(Header(PidPat, 2), Some(FieldPrivate(<<200, 1>>)),
         Some(PatOf(<<[program_num |-> 1, program_map_pid |-> 480],
                      [program_num |-> 2, program_map_pid |-> 481]>>))),
     TsPacketOf(Header(480, 0), None,
         Some(PmtOf(<<[stream_type |-> 15, elementary_pid |-> 257,
                       descriptors |-> <<[tag |-> 10, data |-> <<1>>]>>]>>))),
     TsPacketOf(Header(480, 15), Some(FieldPcr), Some(PmtOf(<< >>))),
     TsPacketOf(Header(257, 0), None,
         Some(PesOf(PesHeaderOf(Some(Limbs(90000)), None, None), 11, <<1, 2>>))),
     TsPacketOf([Header(257, 3) EXCEPT !.transport_priority = TRUE,
                                       !.transport_scrambling_control = 2],
         Some(FieldFull),
         Some(PesOf(PesHeaderOf(Some(Limbs(90000)), Some(Limbs(3000)), Some(Limbs(600))),
                    0, RawBytes(100)))),
     TsPacketOf(Header(PidNull, 0), None, Some(NullPayload)),
     TsPacketOf(Header(PidNull, 1), Some(Field0), Some(NullPayload)),
     TsPacketOf(Header(258, 4), None, Some(RawOf(RawBytes(184)))),
     TsPacketOf(Header(258, 5), None, Some(RawOf(RawBytes(183)))),
     TsPacketOf(Header(258, 6), None, Some(RawOf(RawBytes(182)))),
     TsPacketOf(Header(258, 7), Some(Field0), Some(RawOf(RawBytes(182)))),
     TsPacketOf(Header(258, 8), Some(FieldFull), Some(RawOf(<<9>>))),
     TsPacketOf([Header(PidMax, 9) EXCEPT !.transport_error_indicator = TRUE], None, None),
     TsPacketOf(Header(300, 0), Some(FieldPcr), None),
     TsPacketOf(Header(300, 1), Some(FieldPrivate(RawBytes(182))), None),
     \* a PCR that ClockReference::new accepts and whose base has 34 bits
     TsPacketOf(Header(300, 3),
         Some([Field0 EXCEPT !.pcr = Some(LimbsMulAdd(<<8, 0, 0>>, 300, 0))]),
         Some(RawOf(<<1, 2, 3>>))),
     \* no room: the adaptation field needs more than the payload leaves
     TsPacketOf(Header(258, 10), Some(Field0), Some(RawOf(RawBytes(183)))),
     TsPacketOf(Header(258, 11), Some(FieldPcr), Some(RawOf(RawBytes(184)))),
     TsPacketOf(Header(300, 2), Some(FieldPrivate(RawBytes(183))), None),
     \* no room: the payload is longer than the scratch buffer
     TsPacketOf(Header(258, 12), None, Some(RawOf(RawBytes(185)))),
     TsPacketOf(Header(257, 13), None,
         Some(PesOf(PesHeaderOf(None, None, None), 0, RawBytes(180)))),
     \* a PES header with a DTS and no PTS
     TsPacketOf(Header(257, 14), None,
         Some(PesOf(PesHeaderOf(None, Some(Limbs(3000)), None), 0, <<1>>))),
     \* a PMT whose ES info is longer than 1023 bytes, and one whose section is
     \* longer than MAX_SYNTAX_SECTION_LEN
     TsPacketOf(Header(480, 1), None,
         Some(PmtOf(<<[stream_type |-> 15, elementary_pid |-> 257,
                       descriptors |-> <<LongDescriptor, LongDescriptor,
                                         LongDescriptor, LongDescriptor>>]>>))),
     TsPacketOf(Header(480, 2), None,
         Some(PmtOf(<<[stream_type |-> 15, elementary_pid |-> 257,
                       descriptors |-> <<LongDescriptor, LongDescriptor>>],
                      [stream_type |-> 15, elementary_pid |-> 259,
                       descriptors |-> <<LongDescriptor, LongDescriptor>>]>>)))}

InitWriter ==
    /\ sink = << >>
    /\ wresult = NoResult
    /\ okWrites = 0
    /\ calls = 0
    /\ ReaderIdle /\ PesIdle /\ TripIdle /\ EsIdle /\ CodecIdle

\* A call of TsPacketWriter::write_ts_packet.  What the call has written before
\* an error stays in the sink.
WriteTsPacketCall ==
    /\ calls < MaxWrites
    /\ \E packet \in WriterPackets :
          LET w == Call("TsPacketWriteTo", <<packet>>)
          IN  /\ sink' = sink \o w.val
              /\ wresult' = [err |-> w.err, val |-> Some(packet)]
              /\ okWrites' = IF IsOk(w) THEN okWrites + 1 ELSE okWrites
    /\ calls' = calls + 1
    /\ UNCHANGED <<readerVars, pesVars, tripVars, esVars, codecVars>>

NextWriter == WriteTsPacketCall

SpecWriter == InitWriter /\ [][NextWriter]_vars

\* The bytes the last write_ts_packet call has appended to the sink.
Appended == Drop(sink', Len(sink))

\* C1: every write_ts_packet call that returns Ok appends exactly 188 bytes to
\* the sink, and the first of them is the sync byte 0x47.
C1_WriterEmits188 ==
    [][(calls' = calls + 1 /\ wresult'.err = "Ok")
         => (Len(Appended) = 188 /\ Appended[1] = 71)]_vars

\* Two packets written, the last one with an adaptation field and a PES payload.
C1_Witness ==
    /\ okWrites = 2
    /\ wresult.err = "Ok"
    /\ IsSome(wresult.val[1].adaptation_field)
    /\ IsSome(wresult.val[1].payload)
    /\ wresult.val[1].payload[1].kind = "Pes"
    /\ Len(sink) = 376

-----------------------------------------------------------------------------
(* src/src/pes/reader.rs: PesPacketReader over a ReadTsPacket.              *)

\* A PartialPesPacket.  pes_packet_len is not a field of the code's struct: it
\* keeps what the starting PES declared, and no handler reads it.
PartialPesPacket(pes, data_len) ==
    [packet |-> [header |-> pes.header, data |-> pes.data], data_len |-> data_len,
     pes_packet_len |-> pes.pes_packet_len]

\* partial.data_len.is_none() || partial.data_len == Some(partial.packet.data.len())
DataLenMatches(partial) ==
    ~IsSome(partial.data_len) \/ partial.data_len[1] = Len(partial.packet.data)

\* What a handler returns (err, val), and for a packet it returns where the
\* packet comes from: its PID, its starting PES's pes_packet_len and the handler.
Returned(partial, pid, via) ==
    [err |-> "Ok", val |-> Some(partial.packet),
     from |-> Some([pid |-> pid, pes_packet_len |-> partial.pes_packet_len, via |-> via])]

Failed(e) == [err |-> e, val |-> None, from |-> None]

Nothing == [err |-> "Ok", val |-> None, from |-> None]

\* HashMap::remove
Remove(m, key) == [p \in DOMAIN m \ {key} |-> m[p]]

\* HashMap::insert
Insert(m, key, value) == [p \in DOMAIN m \cup {key} |-> IF p = key THEN value ELSE m[p]]

\* handle_pes_payload that leaves the entry it finds in the map
HandlePesPayloadKeepPrior(m, pid, pes) ==
    LET data_len == IF pes.pes_packet_len = 0 THEN None
                    ELSE Some(pes.pes_packet_len - optional_header_len(pes.header))
    IN  IF pes.pes_packet_len # 0 /\ pes.pes_packet_len < optional_header_len(pes.header)
        THEN [r |-> Failed("InvalidInput"), pes_packets |-> m]
        ELSE IF pid \in DOMAIN m
        THEN [r |-> IF DataLenMatches(m[pid]) THEN Returned(m[pid], pid, "Pes")
                    ELSE Failed("InvalidInput"),
              pes_packets |-> m]
        ELSE [r |-> Nothing, pes_packets |-> Insert(m, pid, PartialPesPacket(pes, data_len))]

\* handle_pes_payload without the length assertion on the replaced entry
HandlePesPayloadUnchecked(m, pid, pes) ==
    LET data_len == IF pes.pes_packet_len = 0 THEN None
                    ELSE Some(pes.pes_packet_len - optional_header_len(pes.header))
    IN  IF pes.pes_packet_len # 0 /\ pes.pes_packet_len < optional_header_len(pes.header)
        THEN [r |-> Failed("InvalidInput"), pes_packets |-> m]
        ELSE [r |-> IF pid \in DOMAIN m THEN Returned(m[pid], pid, "Pes") ELSE Nothing,
              pes_packets |-> Insert(m, pid, PartialPesPacket(pes, data_len))]

\* PesPacketReader::handle_pes_payload: the result and the map afterwards.
HandlePesPayload(m, pid, pes) ==
    LET data_len == IF pes.pes_packet_len = 0 THEN None
                    ELSE Some(pes.pes_packet_len - optional_header_len(pes.header))
        inserted == Insert(m, pid, PartialPesPacket(pes, data_len))
    IN  IF pes.pes_packet_len # 0 /\ pes.pes_packet_len < optional_header_len(pes.header)
        THEN [r |-> Failed("InvalidInput"), pes_packets |-> m]
        ELSE IF pid \in DOMAIN m
        THEN [r |-> IF DataLenMatches(m[pid]) THEN Returned(m[pid], pid, "Pes")
                    ELSE Failed("InvalidInput"),
              pes_packets |-> inserted]
        ELSE [r |-> Nothing, pes_packets |-> inserted]

\* handle_raw_payload that looks the entry up and leaves it in the map, as it
\* was, when the continuation makes it too large
HandleRawPayloadKeepTooLarge(m, pid, data) ==
    IF pid \notin DOMAIN m THEN [r |-> Failed("InvalidInput"), pes_packets |-> m]
    ELSE LET partial == [m[pid] EXCEPT !.packet.data = @ \o data]
         IN  IF Some(Len(partial.packet.data)) = partial.data_len
             THEN [r |-> Returned(partial, pid, "Raw"), pes_packets |-> Remove(m, pid)]
             ELSE IF IsSome(partial.data_len) /\ Len(partial.packet.data) > partial.data_len[1]
             THEN [r |-> Failed("InvalidInput"), pes_packets |-> m]
             ELSE [r |-> Nothing, pes_packets |-> Insert(m, pid, partial)]

\* handle_raw_payload without the assertion on too large data
HandleRawPayloadNoLimit(m, pid, data) ==
    IF pid \notin DOMAIN m THEN [r |-> Failed("InvalidInput"), pes_packets |-> m]
    ELSE LET partial == [m[pid] EXCEPT !.packet.data = @ \o data]
         IN  IF Some(Len(partial.packet.data)) = partial.data_len
             THEN [r |-> Returned(partial, pid, "Raw"), pes_packets |-> Remove(m, pid)]
             ELSE [r |-> Nothing, pes_packets |-> Insert(m, pid, partial)]

\* handle_raw_payload putting the continuation before the data it has
HandleRawPayloadPrepend(m, pid, data) ==
    IF pid \notin DOMAIN m THEN [r |-> Failed("InvalidInput"), pes_packets |-> m]
    ELSE LET partial == [m[pid] EXCEPT !.packet.data = data \o @]
         IN  IF Some(Len(partial.packet.data)) = partial.data_len
             THEN [r |-> Returned(partial, pid, "Raw"), pes_packets |-> Remove(m, pid)]
             ELSE IF IsSome(partial.data_len) /\ Len(partial.packet.data) > partial.data_len[1]
             THEN [r |-> Failed("InvalidInput"), pes_packets |-> Remove(m, pid)]
             ELSE [r |-> Nothing, pes_packets |-> Insert(m, pid, partial)]

\* PesPacketReader::handle_raw_payload: the entry is removed, and put back only
\* when it is neither complete nor too large.
HandleRawPayload(m, pid, data) ==
    IF pid \notin DOMAIN m THEN [r |-> Failed("InvalidInput"), pes_packets |-> m]
    ELSE LET partial == [m[pid] EXCEPT !.packet.data = @ \o data]
         IN  IF Some(Len(partial.packet.data)) = partial.data_len
             THEN [r |-> Returned(partial, pid, "Raw"), pes_packets |-> Remove(m, pid)]
             ELSE IF IsSome(partial.data_len) /\ Len(partial.packet.data) > partial.data_len[1]
             THEN [r |-> Failed("InvalidInput"), pes_packets |-> Remove(m, pid)]
             ELSE [r |-> Nothing, pes_packets |-> Insert(m, pid, partial)]

\* handle_eos that looks the first entry up and leaves it in the map
HandleEosKeep(m, key) ==
    IF key \notin DOMAIN m THEN [r |-> Nothing, pes_packets |-> m]
    ELSE [r |-> IF DataLenMatches(m[key]) THEN Returned(m[key], key, "Eos")
                ELSE Failed("InvalidInput"),
          pes_packets |-> m]

\* PesPacketReader::handle_eos, key being the map's keys().nth(0): any key of the
\* map, its order being the hasher's.
HandleEos(m, key) ==
    IF key \notin DOMAIN m THEN [r |-> Nothing, pes_packets |-> m]
    ELSE [r |-> IF DataLenMatches(m[key]) THEN Returned(m[key], key, "Eos")
                ELSE Failed("InvalidInput"),
          pes_packets |-> Remove(m, key)]

\* The while loop of read_pes_packet over the results of read_ts_packet (input,
\* Ok(None) once it is used up): it ends with the first error or packet (reached
\* is FALSE), or with the end of the stream (reached is TRUE).
RECURSIVE ReadPesLoop(_, _)
ReadPesLoop(input, m) ==
    IF input = << >>
    THEN [reached |-> TRUE, r |-> Nothing, pes_packets |-> m, rest |-> input]
    ELSE IF Head(input).err # "Ok"
    THEN [reached |-> FALSE, r |-> Failed(Head(input).err), pes_packets |-> m,
          rest |-> Tail(input)]
    ELSE LET ts_packet == Head(input).val[1]
             pid       == ts_packet.header.pid
             kind      == IF IsSome(ts_packet.payload) THEN ts_packet.payload[1].kind
                          ELSE "None"
             h == CASE kind = "Pes" -> HandlePesPayload(m, pid, ts_packet.payload[1])
                    [] kind = "Raw" -> HandleRawPayload(m, pid, ts_packet.payload[1].data)
                    [] OTHER -> [r |-> Nothing, pes_packets |-> m]
         IN  IF h.r.err # "Ok" \/ IsSome(h.r.val)
             THEN [reached |-> FALSE, r |-> h.r, pes_packets |-> h.pes_packets,
                   rest |-> Tail(input)]
             ELSE ReadPesLoop(Tail(input), h.pes_packets)

-----------------------------------------------------------------------------
(* The PES packet reader: PesPacketReader::new over a TS packet reader whose *)
(* results are given, then read_pes_packet calls.                           *)

\* The TS packets the TS packet reader yields before the end of its stream.
MaxTsPackets == 3

\* The read_pes_packet calls made on one reader in a run.
MaxPesCalls == 6

\* What read_ts_packet returns: a packet, or an error.
TsOk(packet) == [err |-> "Ok", val |-> Some(packet)]

TsErr == [err |-> "InvalidInput", val |-> None]

\* A PES start on `pid` declaring `declared` data bytes (0: no bound; otherwise
\* pes_packet_len is optional_header_len plus that), and a continuation.
PesStart(pid, header, declared, data) ==
    TsOk(TsPacketOf(Header(pid, 0), None,
        Some(PesOf(header, IF declared = 0 THEN 0 ELSE optional_header_len(header) + declared,
                   data))))

RawOn(pid, data) == TsOk(TsPacketOf(Header(pid, 1), None, Some(RawOf(data))))

\* The results the TS packet reader is made to return: PES starts whose first
\* packet holds all, a part or none of the bound on the data, continuations,
\* a packet of another kind, a pes_packet_len below the header's, an error.
PesInputs ==
    <<PesStart(257, PesHeaderOf(None, None, None), 2, <<1, 2>>),
      PesStart(257, PesHeaderOf(None, None, None), 3, <<3>>),
      RawOn(257, <<4, 5>>),
      PesStart(258, PesHeaderOf(None, None, None), 0, <<7>>),
      RawOn(258, <<8>>),
      PesStart(259, PesHeaderOf(Some(Limbs(90000)), None, None), 1, <<9>>),
      TsOk(TsPacketOf(Header(PidPat, 0), None,
          Some(PatOf(<<[program_num |-> 1, program_map_pid |-> 480]>>)))),
      TsOk(TsPacketOf(Header(257, 0), None,
          Some(PesOf(PesHeaderOf(None, None, None), 2, << >>)))),
      TsErr>>

\* PesPacketReader::new
InitPes ==
    /\ ts_input \in UNION {[1..k -> {PesInputs[i] : i \in DOMAIN PesInputs}] :
                              k \in 0..MaxTsPackets}
    /\ pes_packets = << >>
    /\ eos = FALSE
    /\ pes_result = NoResult
    /\ consumed = << >>
    /\ emitted = << >>
    /\ drained = None
    /\ reach = << >>
    /\ calls = 0
    /\ ReaderIdle /\ WriterIdle /\ TripIdle /\ EsIdle /\ CodecIdle

\* A call of PesPacketReader::read_pes_packet.  consumed, emitted, reach and drained
\* are the history of the run: the results taken from the TS packet reader,
\* what each call has returned, and, from the call that reaches the end of the
\* stream on, the map at that moment and what each call has returned.
ReadPesPacketCall ==
    /\ calls < MaxPesCalls
    /\ LET l == IF eos
                THEN [reached |-> TRUE, r |-> Nothing, pes_packets |-> pes_packets,
                      rest |-> ts_input]
                ELSE ReadPesLoop(ts_input, pes_packets)
       IN  \E key \in IF l.reached /\ DOMAIN l.pes_packets # {}
                      THEN DOMAIN l.pes_packets ELSE {PidPat} :
              LET out == IF l.reached THEN HandleEos(l.pes_packets, key)
                         ELSE [r |-> l.r, pes_packets |-> l.pes_packets]
              IN  /\ ts_input' = l.rest
                  /\ consumed' = consumed \o Take(ts_input, Len(ts_input) - Len(l.rest))
                  /\ pes_packets' = out.pes_packets
                  /\ eos' = l.reached
                  /\ pes_result' = [err |-> out.r.err, val |-> out.r.val]
                  /\ emitted' = Append(emitted, out.r)
                  /\ reach' = Append(reach, Len(ts_input) - Len(l.rest) + Len(consumed))
                  /\ drained' =
                        IF ~l.reached THEN None
                        ELSE IF ~IsSome(drained)
                        THEN Some([at_eos |-> l.pes_packets, results |-> <<out.r>>])
                        ELSE Some([drained[1] EXCEPT !.results = Append(@, out.r)])
    /\ calls' = calls + 1
    /\ UNCHANGED <<readerVars, writerVars, tripVars, esVars, codecVars>>

NextPes == ReadPesPacketCall

SpecPes == InitPes /\ [][NextPes]_vars


\* The data length a starting PES declares: pes_packet_len - optional_header_len.
DeclaredLen(header, pes_packet_len) == pes_packet_len - optional_header_len(header)

\* The calls that have returned a packet whose starting PES was handled by `via`.
EmittedVia(via) ==
    {i \in DOMAIN emitted : IsSome(emitted[i].val) /\ emitted[i].from[1].via = via}

\* C2: every PesPacket read_pes_packet returns whose starting PES had
\* pes_packet_len # 0 has pes_packet_len - optional_header_len bytes of data,
\* whether a continuation, the next PES start of its PID or the end of the
\* stream has made the reader return it.
C2_BoundedDataLength ==
    \A i \in DOMAIN emitted :
        (IsSome(emitted[i].val) /\ emitted[i].from[1].pes_packet_len # 0)
            => Len(emitted[i].val[1].data)
                   = DeclaredLen(emitted[i].val[1].header, emitted[i].from[1].pes_packet_len)

\* Bounded packets returned on a continuation and on the end of the stream.
C2_Witness ==
    /\ \E i \in EmittedVia("Raw") : emitted[i].from[1].pes_packet_len # 0
    /\ \E i \in EmittedVia("Eos") : emitted[i].from[1].pes_packet_len # 0

\* The PES starts and continuations among the results taken from the TS reader.
Received ==
    SelectSeq(consumed, LAMBDA x : x.err = "Ok" /\ IsSome(x.val[1].payload)
                                     /\ x.val[1].payload[1].kind \in {"Pes", "Raw"})

\* The data received on `pid`, in input order.
ReceivedOn(pid) ==
    LET on == SelectSeq(Received, LAMBDA x : x.val[1].header.pid = pid)
    IN  Flatten([i \in DOMAIN on |-> on[i].val[1].payload[1].data])

\* The data of the packets returned for `pid`, in the order of the calls.
EmittedOn(pid) ==
    LET on == SelectSeq(emitted, LAMBDA r : IsSome(r.val) /\ r.from[1].pid = pid)
    IN  Flatten([i \in DOMAIN on |-> on[i].val[1].data])

\* Every PES start taken has a bound, no call has failed, and the last call has
\* returned None.
WholeBoundedRun ==
    /\ emitted # << >>
    /\ \A i \in DOMAIN emitted : emitted[i].err = "Ok"
    /\ emitted[Len(emitted)] = Nothing
    /\ \A i \in DOMAIN Received :
          Received[i].val[1].payload[1].kind = "Pes"
              => Received[i].val[1].payload[1].pes_packet_len # 0

\* C3: when every PES start has pes_packet_len # 0 and read_pes_packet has gone
\* through the input without an error up to the final None, then for each PID
\* the data of the packets returned for it, in order, is the data of the PES
\* starts and continuations received on it, in order.
C3_PerPidConcatenation ==
    WholeBoundedRun =>
        \A pid \in {r.val[1].header.pid : r \in {PesInputs[i] : i \in 1..(Len(PesInputs) - 1)}}
                 \cup {emitted[i].from[1].pid : i \in EmittedVia("Raw") \cup EmittedVia("Pes")
                                                      \cup EmittedVia("Eos")} :
            EmittedOn(pid) = ReceivedOn(pid)

\* A whole run over two PIDs, one packet of which came in two TS packets.
C3_Witness ==
    /\ WholeBoundedRun
    /\ Len(ReceivedOn(257)) = 3
    /\ Len(ReceivedOn(259)) = 1
    /\ EmittedVia("Raw") # {}

\* A PES start that holds all the data its pes_packet_len declares.
CompleteStart(x) ==
    /\ x.err = "Ok"
    /\ IsSome(x.val[1].payload)
    /\ x.val[1].payload[1].kind = "Pes"
    /\ x.val[1].payload[1].pes_packet_len # 0
    /\ Len(x.val[1].payload[1].data)
         = DeclaredLen(x.val[1].payload[1].header, x.val[1].payload[1].pes_packet_len)

\* C4: a read_pes_packet call that takes a PES start holding all its declared
\* data, with no entry in flight for its PID, returns that PES packet itself,
\* without taking another TS packet or reaching the end of the stream.
C4_EmitsCompleteStart ==
    [][(/\ calls' = calls + 1
        /\ ~eos
        /\ ts_input # << >>
        /\ CompleteStart(Head(ts_input))
        /\ Head(ts_input).val[1].header.pid \notin DOMAIN pes_packets)
         => (/\ pes_result' = [err |-> "Ok",
                               val |-> Some([header |-> Head(ts_input).val[1].payload[1].header,
                                             data |-> Head(ts_input).val[1].payload[1].data])]
             /\ consumed' = Append(consumed, Head(ts_input))
             /\ ~eos')]_vars

\* The entries in flight at the end of the stream that have left the map since.
Drained == DOMAIN drained[1].at_eos \ DOMAIN pes_packets

\* An entry the end of the stream finds with the data its starting PES declared.
WellEnded(partial) ==
    partial.pes_packet_len = 0
        \/ Len(partial.packet.data) = DeclaredLen(partial.packet.header, partial.pes_packet_len)

\* C5: from the call in which the TS reader reports the end of the stream with
\* n entries in flight, n calls remove one entry each (returning its packet, or
\* InvalidInput for a bounded entry whose data is not of the declared length),
\* no entry twice, and every call after them returns None.
C5_EosDrain ==
    IsSome(drained) =>
        LET at_eos  == drained[1].at_eos
            results == drained[1].results
            n       == Cardinality(DOMAIN at_eos)
            k       == IF Len(results) < n THEN Len(results) ELSE n
            given   == {i \in 1..k : IsSome(results[i].val)}
            failed  == {i \in 1..k : results[i].err = "InvalidInput"}
        IN  /\ Cardinality(Drained) = k
            /\ \A p \in DOMAIN pes_packets : p \in DOMAIN at_eos /\ pes_packets[p] = at_eos[p]
            /\ given \cup failed = 1..k
            /\ \A i \in given : /\ results[i].err = "Ok"
                                /\ results[i].from[1].pid \in Drained
                                /\ results[i].val[1] = at_eos[results[i].from[1].pid].packet
            /\ {results[i].from[1].pid : i \in given} = {p \in Drained : WellEnded(at_eos[p])}
            /\ Cardinality(given) = Cardinality({p \in Drained : WellEnded(at_eos[p])})
            /\ Cardinality(failed) = Cardinality({p \in Drained : ~WellEnded(at_eos[p])})
            /\ \A i \in (n + 1)..Len(results) : results[i] = Nothing

\* Three entries in flight at the end of the stream, one of them short of its
\* declared length, and two calls after the three that drain them.
C5_Witness ==
    /\ IsSome(drained)
    /\ Cardinality(DOMAIN drained[1].at_eos) = 3
    /\ Len(drained[1].results) = 5
    /\ \E i \in 1..3 : drained[1].results[i].err = "InvalidInput"
    /\ pes_packets = << >>

-----------------------------------------------------------------------------
(* Properties of the TS packet reader.                                      *)

\* The TS packet at the head of the reader's stream, as far as its header and
\* adaptation field tell: whether it is a whole packet that carries a payload,
\* its PID and its payload-unit-start indicator.
HeadPacket ==
    LET region == Take(stream, TsPacketSize)
        h  == TsHeaderReadFrom(region)
        af == IF IsOk(h) /\ HasAdaptationField(h.val[2]) THEN AdaptationFieldReadFrom(h.rest)
              ELSE Ok(None, << >>)
    IN  IF Len(region) = TsPacketSize /\ IsOk(h) /\ IsOk(af) /\ HasPayload(h.val[2])
        THEN [carries_payload |-> TRUE, pid |-> h.val[1].pid,
              payload_unit_start_indicator |-> h.val[3]]
        ELSE [carries_payload |-> FALSE, pid |-> PidPat,
              payload_unit_start_indicator |-> FALSE]

\* The kind of a decoded packet's payload.
PayloadKind(packet) == IF IsSome(packet.payload) THEN packet.payload[1].kind ELSE "None"

\* The PIDs a decoded packet announces as program map PIDs and as elementary PIDs.
ProgramMapPids(packet) ==
    IF PayloadKind(packet) = "Pat"
    THEN {packet.payload[1].table[i].program_map_pid : i \in DOMAIN packet.payload[1].table}
    ELSE {}

ElementaryPids(packet) ==
    IF PayloadKind(packet) = "Pmt"
    THEN {packet.payload[1].es_info[i].elementary_pid : i \in DOMAIN packet.payload[1].es_info}
    ELSE {}

\* What the packets decoded so far say about `pid`: "Pmt" when the last packet
\* that announces it is a PAT, "Pes" when it is a PMT, "Unknown" when none does.
RECURSIVE KindAfter(_, _)
KindAfter(history, pid) ==
    IF history = << >> THEN "Unknown"
    ELSE LET last == history[Len(history)]
         IN  IF pid \in ProgramMapPids(last) THEN "Pmt"
             ELSE IF pid \in ElementaryPids(last) THEN "Pes"
             ELSE KindAfter(SubSeq(history, 1, Len(history) - 1), pid)

\* The next read_ts_packet call finds a payload on a PID other than 0x0000 and
\* 0x1FFF that no PAT or PMT decoded by this reader has announced.
HeadUnannounced ==
    /\ HeadPacket.carries_payload
    /\ HeadPacket.pid \notin {PidPat, PidNull}
    /\ KindAfter(decoded, HeadPacket.pid) = "Unknown"

C7_UnannouncedPidDecoded ==
    [][(calls' = calls + 1 /\ HeadUnannounced)
         => (/\ result'.err = "Ok"
             /\ IsSome(result'.val)
             /\ result'.val[1].header.pid = HeadPacket.pid)]_vars

\* C8: a payload packet on PID 0x0000 is decoded as a PAT and one on 0x1FFF as
\* Null, whatever the map holds; on another PID, as a PMT when the last decoded
\* packet announcing the PID is a PAT listing it as program_map_pid, and as Pes
\* (payload-unit-start set) or Raw (clear) when it is a PMT listing it as
\* elementary_pid.
C8_DispatchChain ==
    [][(calls' = calls + 1 /\ HeadPacket.carries_payload)
         => dispatch' =
              (IF HeadPacket.pid = PidPat THEN "Pat"
               ELSE IF HeadPacket.pid = PidNull THEN "Null"
               ELSE CASE KindAfter(decoded, HeadPacket.pid) = "Pmt" -> "Pmt"
                      [] KindAfter(decoded, HeadPacket.pid) = "Pes" ->
                            IF HeadPacket.payload_unit_start_indicator THEN "Pes" ELSE "Raw"
                      [] OTHER -> dispatch')]_vars

\* A PAT, the PMT it announces and a PES start on a PID of the PMT, all decoded.
C8_Witness ==
    /\ Len(decoded) = 3
    /\ PayloadKind(decoded[1]) = "Pat"
    /\ PayloadKind(decoded[2]) = "Pmt"
    /\ PayloadKind(decoded[3]) = "Pes"
    /\ decoded[3].header.pid \in ElementaryPids(decoded[2])
    /\ decoded[2].header.pid \in ProgramMapPids(decoded[1])
    /\ dispatch = "Pes"

\* C9: no read_ts_packet call, whether it succeeds, fails or finds the end of
\* the stream, takes a PID out of the reader's PID map.
C9_PidMapGrows == [][DOMAIN pids \subseteq DOMAIN pids']_vars

\* The map holds the PIDs of a PAT and a PMT, and the call after them failed.
C9_Witness ==
    /\ Cardinality(DOMAIN pids) = 4
    /\ calls = 3
    /\ result.err = "InvalidInput"

-----------------------------------------------------------------------------
(* The round trip of the tests pat and pmt of src/src/ts/mod.rs: a stream   *)
(* is decoded by one TsPacketReader, each decoded packet is written by one   *)
(* TsPacketWriter, and what was written is decoded by a fresh reader.       *)

\* A TS packet on `pid` whose adaptation field carries the private data `data`
\* with its length byte, as read_from expects it, before the payload bytes.
PacketWithPrivateData(pid, cc, data, payload_bytes) ==
    LET field_len == TsPacketSize - 4 - 1 - Len(payload_bytes)
    IN  TsHeaderWriteTo(Header(pid, cc), AdaptationFieldAndPayload, TRUE)
          \o <<field_len, 2, Len(data)>> \o data
          \o [i \in 1..(field_len - 2 - Len(data)) |-> 255]
          \o payload_bytes

PatListing480 == PatOf(<<[program_num |-> 1, program_map_pid |-> 480]>>)

\* Well-formed PAT packets that announce PID 480.
PatPackets ==
    {PatPacketBytes,
     Serialized(TsPacketOf(Header(PidPat, 3), None, Some(PatListing480))),
     Serialized(TsPacketOf(Header(PidPat, 4), Some(FieldPcr), Some(PatListing480))),
     Serialized(TsPacketOf(Header(PidPat, 5), Some(FieldFull),
         Some(PatOf(<<[program_num |-> 1, program_map_pid |-> 480],
                      [program_num |-> 2, program_map_pid |-> 481]>>)))),
     PacketWithPrivateData(PidPat, 6, <<200, 1>>, Call("PatWriteTo", <<PatListing480>>).val)}

\* Well-formed PMT packets on PID 480.
PmtPackets ==
    {PmtPacketBytes,
     Serialized(TsPacketOf(Header(480, 1), None, Some(PmtOf(<< >>)))),
     Serialized(TsPacketOf(Header(480, 2), Some(FieldFull),
         Some(PmtOf(<<[stream_type |-> 15, elementary_pid |-> 257,
                       descriptors |-> <<[tag |-> 10, data |-> <<1, 2>>]>>]>>)))),
     PacketWithPrivateData(480, 3, <<0>>, Call("PmtWriteTo", <<PmtOf(<< >>)>>).val)}

\* TsPacketReader::new over a PAT packet and a PMT packet, TsPacketWriter::new
\* over an empty Vec<u8>.
InitRoundTrip ==
    /\ stream \in {pat \o pmt : pat \in PatPackets, pmt \in PmtPackets}
    /\ pids = << >>
    /\ result = NoResult
    /\ dispatch = "NoCall"
    /\ decoded = << >>
    /\ WriterIdle
    /\ stream2 = << >>
    /\ pids2 = << >>
    /\ decoded2 = << >>
    /\ phase = "decode"
    /\ calls = 0
    /\ PesIdle /\ EsIdle /\ CodecIdle

\* read_ts_packet on the first reader, and write_ts_packet of the packet it
\* returns.  At the end of the stream the second reader is made over the bytes
\* written.
DecodeAndWrite ==
    /\ phase = "decode"
    /\ LET r == Call("ReadTsPacket", <<stream, pids>>)
           read == IsOk(r) /\ IsSome(r.val)
           w == IF read THEN Call("TsPacketWriteTo", <<r.val[1]>>) ELSE Ok(<< >>, << >>)
       IN  /\ stream' = r.rest
           /\ pids' = r.pids
           /\ result' = [err |-> r.err, val |-> r.val]
           /\ dispatch' = r.dispatch
           /\ decoded' = IF read THEN Append(decoded, r.val[1]) ELSE decoded
           /\ sink' = sink \o w.val
           /\ wresult' = IF read THEN [err |-> w.err, val |-> r.val] ELSE wresult
           /\ okWrites' = IF read /\ IsOk(w) THEN okWrites + 1 ELSE okWrites
           /\ phase' = IF ~IsOk(r) THEN "decode failed"
                       ELSE IF ~IsOk(w) THEN "write failed"
                       ELSE IF read THEN "decode"
                       ELSE "decode again"
           /\ stream2' = IF IsOk(r) /\ ~read THEN sink ELSE stream2
    /\ calls' = calls + 1
    /\ UNCHANGED <<pids2, decoded2, pesVars, esVars, codecVars>>

\* read_ts_packet on the second reader.
DecodeAgain ==
    /\ phase = "decode again"
    /\ LET r == Call("ReadTsPacket", <<stream2, pids2>>)
       IN  /\ stream2' = r.rest
           /\ pids2' = r.pids
           /\ result' = [err |-> r.err, val |-> r.val]
           /\ dispatch' = r.dispatch
           /\ decoded2' = IF IsOk(r) /\ IsSome(r.val) THEN Append(decoded2, r.val[1])
                          ELSE decoded2
           /\ phase' = IF ~IsOk(r) THEN "decode again failed"
                       ELSE IF IsSome(r.val) THEN "decode again"
                       ELSE "done"
    /\ calls' = calls + 1
    /\ UNCHANGED <<stream, pids, decoded, writerVars, pesVars, esVars, codecVars>>

NextRoundTrip == DecodeAndWrite \/ DecodeAgain

SpecRoundTrip == InitRoundTrip /\ [][NextRoundTrip]_vars

\* C10: for a stream of a well-formed PAT packet and a well-formed PMT packet,
\* writing each decoded packet and decoding what was written with a fresh reader
\* gives as many packets, in the same order, each with the header and the
\* payload of the packet decoded first, and then None.
C10_RoundTrip ==
    /\ phase \notin {"write failed", "decode again failed"}
    /\ phase = "done" =>
          /\ Len(decoded2) = Len(decoded)
          /\ \A i \in DOMAIN decoded :
                /\ decoded2[i].header = decoded[i].header
                /\ decoded2[i].payload = decoded[i].payload

\* The same round trip when no decoded packet carries private data in its
\* adaptation field.
RoundTripWithoutPrivateData ==
    (\A i \in DOMAIN decoded :
        ~IsSome(decoded[i].adaptation_field)
            \/ decoded[i].adaptation_field[1].transport_private_data = << >>)
        => C10_RoundTrip

\* C11: in a round trip that has gone through to the end, the packets decoded
\* from what was written are the packets decoded first, as whole TsPacket
\* values: the same header, the same adaptation_field (None where it was None,
\* Some of the same field otherwise) and the same payload.
C11_StructuralRoundTrip == phase = "done" => decoded2 = decoded

-----------------------------------------------------------------------------
(* src/src/es.rs: EsFrameReader over a packet reader whose results are      *)
(* given.                                                                   *)

\* The packets the packet reader yields before the end of its stream.
MaxEsPackets == 3

\* The read_es_frame calls made on one reader in a run.
MaxEsCalls == 5

\* struct EsFrame
EsFrame(stream_id, pts, dts, data, pid, frame_len) ==
    [stream_id |-> stream_id, pts |-> pts, dts |-> dts, data |-> data,
     pid |-> pid, frame_len |-> frame_len]

\* A packet of the packet reader with a PES payload: the start of a frame.
EsPesStart(pid, pcr, stream_id, pes_packet_len, pts, data) ==
    TsOk([header |-> [pid |-> pid],
          adaptation_field |-> IF IsSome(pcr) THEN Some([pcr |-> pcr]) ELSE None,
          payload |-> Some([kind |-> "Pes",
                            header |-> [stream_id |-> stream_id,
                                        pes_packet_len |-> pes_packet_len,
                                        pts |-> pts, dts |-> None],
                            data |-> data])])

\* A packet with a Raw payload: the continuation of a frame.
EsRawOn(pid, data) ==
    TsOk([header |-> [pid |-> pid], adaptation_field |-> None,
          payload |-> Some([kind |-> "Raw", data |-> data])])

\* The results the packet reader is made to return: frame starts that hold
\* all, a part or none of their declared length, starts with no bound, with
\* and without data, continuations, a packet of another kind, an error, a
\* packet with a PCR and no payload, a continuation with an adaptation field
\* that has no PCR.
EsInputs ==
    <<EsPesStart(257, None, 192, 2, None, <<1, 2>>),
      EsPesStart(257, Some(Limbs(27000)), 192, 3, Some(Limbs(90000)), <<3>>),
      EsRawOn(257, <<4, 5>>),
      EsPesStart(258, None, 224, 0, None, <<7>>),
      EsRawOn(258, <<8>>),
      EsPesStart(258, None, 224, 0, None, << >>),
      EsPesStart(257, None, 192, 2, None, << >>),
      TsOk([header |-> [pid |-> PidPat], adaptation_field |-> None,
            payload |-> Some(PatOf(<<[program_num |-> 1, program_map_pid |-> 480]>>))]),
      TsErr,
      TsOk([header |-> [pid |-> 256],
            adaptation_field |-> Some([pcr |-> Some(Limbs(54000))]), payload |-> None]),
      TsOk([header |-> [pid |-> 258], adaptation_field |-> Some([pcr |-> None]),
            payload |-> Some([kind |-> "Raw", data |-> <<6>>])])>>

\* self.pcr that is set from the packets with a PES payload only
LatchPcrOnPes(packet, clock) ==
    IF /\ IsSome(packet.adaptation_field)
       /\ IsSome(packet.adaptation_field[1].pcr)
       /\ IsSome(packet.payload)
       /\ packet.payload[1].kind = "Pes"
    THEN packet.adaptation_field[1].pcr[1] ELSE clock

\* self.pcr after a packet: the PCR of its adaptation field, if it has one.
LatchPcr(packet, clock) ==
    IF IsSome(packet.adaptation_field) /\ IsSome(packet.adaptation_field[1].pcr)
    THEN packet.adaptation_field[1].pcr[1] ELSE clock

\* The loop of read_es_frame over the results of read_packet (input, Ok(None)
\* once it is used up): it returns at the end of the stream, at the first
\* error and with the first frame.
RECURSIVE ReadEsLoop(_, _, _)
ReadEsLoop(input, m, clock) ==
    IF input = << >>
    THEN [r |-> [err |-> "Ok", val |-> None], es_frames |-> m, pcr |-> clock,
          rest |-> input]
    ELSE IF Head(input).err # "Ok"
    THEN [r |-> [err |-> Head(input).err, val |-> None], es_frames |-> m,
          pcr |-> clock, rest |-> Tail(input)]
    ELSE LET packet == Head(input).val[1]
             pid    == packet.header.pid
             pcr    == LatchPcr(packet, clock)
             kind   == IF IsSome(packet.payload) THEN packet.payload[1].kind ELSE "None"
             Return(frame, frames) ==
                 [r |-> [err |-> "Ok", val |-> Some(frame)], es_frames |-> frames,
                  pcr |-> pcr, rest |-> Tail(input)]
             Fail(frames) ==
                 [r |-> [err |-> "InvalidInput", val |-> None], es_frames |-> frames,
                  pcr |-> pcr, rest |-> Tail(input)]
         IN  CASE kind = "Pes" ->
                    LET pes == packet.payload[1]
                        frame_len == IF pes.header.pes_packet_len # 0
                                     THEN Some(pes.header.pes_packet_len) ELSE None
                        frame == EsFrame(pes.header.stream_id, pes.header.pts,
                                         pes.header.dts, pes.data, pid, frame_len)
                    IN  IF frame_len = Some(Len(frame.data)) THEN Return(frame, m)
                        ELSE IF pid \in DOMAIN m THEN Return(m[pid], Insert(m, pid, frame))
                        ELSE ReadEsLoop(Tail(input), Insert(m, pid, frame), pcr)
               [] kind = "Raw" ->
                    IF pid \notin DOMAIN m THEN Fail(m)
                    ELSE LET frame == [m[pid] EXCEPT !.data = @ \o packet.payload[1].data]
                             removed == Remove(m, pid)
                         IN  IF IsSome(frame.frame_len)
                             THEN IF Len(frame.data) > frame.frame_len[1] THEN Fail(removed)
                                  ELSE IF Len(frame.data) = frame.frame_len[1]
                                  THEN Return(frame, removed)
                                  ELSE ReadEsLoop(Tail(input), Insert(removed, pid, frame), pcr)
                             ELSE ReadEsLoop(Tail(input), Insert(removed, pid, frame), pcr)
               [] OTHER -> ReadEsLoop(Tail(input), m, pcr)

\* EsFrameReader::new
InitEs ==
    /\ es_input \in UNION {[1..k -> {EsInputs[i] : i \in DOMAIN EsInputs}] :
                              k \in 0..MaxEsPackets}
    /\ es_frames = << >>
    /\ es_pcr = Limbs(0)
    /\ es_result = NoResult
    /\ es_emitted = << >>
    /\ es_consumed = << >>
    /\ calls = 0
    /\ ReaderIdle /\ WriterIdle /\ PesIdle /\ TripIdle /\ CodecIdle

\* A call of EsFrameReader::read_es_frame.
ReadEsFrameCall ==
    /\ calls < MaxEsCalls
    /\ LET l == ReadEsLoop(es_input, es_frames, es_pcr)
       IN  /\ es_input' = l.rest
           /\ es_frames' = l.es_frames
           /\ es_pcr' = l.pcr
           /\ es_result' = l.r
           /\ es_emitted' = IF IsSome(l.r.val) THEN Append(es_emitted, l.r.val[1])
                            ELSE es_emitted
           /\ es_consumed' = es_consumed \o Take(es_input, Len(es_input) - Len(l.rest))
    /\ calls' = calls + 1
    /\ UNCHANGED <<readerVars, writerVars, pesVars, tripVars, codecVars>>

NextEs == ReadEsFrameCall

SpecEs == InitEs /\ [][NextEs]_vars

\* C12: a read_es_frame call returns None only when no frame is held: at the
\* end of the stream of the packet reader the frames still held are returned,
\* one per call, before any call returns None.
C12_EosDrainsFrames ==
    [][(calls' = calls + 1 /\ es_result'.err = "Ok" /\ es_result'.val = None)
          => es_frames' = << >>]_vars

\* C13: every EsFrame read_es_frame has returned has a data buffer that is not
\* empty.
C13_FrameDataNonEmpty == \A i \in DOMAIN es_emitted : Len(es_emitted[i].data) > 0

-----------------------------------------------------------------------------
(* A PSI table on its own: PsiTable::write_to, PsiTable::read_from of what   *)
(* was written, and read_from of what was written with one byte of the      *)
(* syntax section body changed.                                             *)

PsiTableOf(table_id, private_bit, syntax) ==
    [header |-> [table_id |-> table_id, private_bit |-> private_bit], syntax |-> syntax]

PsiTableSyntaxOf(table_id_extension, version_number, current_next_indicator, section_number, last_section_number, table_data) ==
    [table_id_extension     |-> table_id_extension,
     version_number         |-> version_number,
     current_next_indicator |-> current_next_indicator,
     section_number         |-> section_number,
     last_section_number    |-> last_section_number,
     table_data             |-> table_data]

\* The section of a PAT, the section of a PMT, a private section with every
\* field at its largest and no table data, and a table with no syntax section.
PsiTables ==
    {PsiTableOf(PatTableId, FALSE,
         Some(PsiTableSyntaxOf(0, 1, TRUE, 0, 0, <<0, 1, 225, 224>>))),
     PsiTableOf(PmtTableId, FALSE,
         Some(PsiTableSyntaxOf(1, 0, TRUE, 0, 0, <<225, 2, 240, 0, 27, 225, 2, 240, 0>>))),
     PsiTableOf(255, TRUE, Some(PsiTableSyntaxOf(65535, 31, FALSE, 255, 255, << >>))),
     PsiTableOf(114, FALSE, None)}

\* The positions of the syntax section body in a written section: after the
\* three header bytes, before the four bytes of the CRC.
BodyPositions(section) == 4..(Len(section) - 4)

InitPsi ==
    /\ origin \in PsiTables
    /\ subject = << >>
    /\ wire = << >>
    /\ back = NoResult
    /\ step = "new"
    /\ calls = 0
    /\ ReaderIdle /\ WriterIdle /\ PesIdle /\ TripIdle /\ EsIdle

\* PsiTable::write_to into an empty Vec<u8>.
PsiTableWrite ==
    /\ step = "new"
    /\ LET w == Call("PsiTableWriteTo", <<origin>>)
       IN  /\ wire' = w.val
           /\ back' = [err |-> w.err, val |-> None]
    /\ step' = "written"
    /\ calls' = calls + 1
    /\ UNCHANGED <<origin, subject, readerVars, writerVars, pesVars, tripVars, esVars>>

\* PsiTable::read_from over the bytes written.
PsiTableRead ==
    /\ step = "written"
    /\ back.err = "Ok"
    /\ LET r == Call("PsiTableReadFrom", <<wire>>)
       IN  back' = [err |-> r.err, val |-> IF IsOk(r) THEN Some(r.val) ELSE None]
    /\ subject' = wire
    /\ step' = "read"
    /\ calls' = calls + 1
    /\ UNCHANGED <<origin, wire, readerVars, writerVars, pesVars, tripVars, esVars>>

\* PsiTable::read_from over the bytes written with the byte at one position of
\* the body replaced by another byte.
PsiTableReadChanged ==
    /\ step = "read"
    /\ \E i \in BodyPositions(wire) : \E byte \in (0..255) \ {wire[i]} :
          LET changed == [wire EXCEPT ![i] = byte]
              r == Call("PsiTableReadFrom", <<changed>>)
          IN  /\ subject' = changed
              /\ back' = [err |-> r.err, val |-> IF IsOk(r) THEN Some(r.val) ELSE None]
    /\ step' = "read changed"
    /\ calls' = calls + 1
    /\ UNCHANGED <<origin, wire, readerVars, writerVars, pesVars, tripVars, esVars>>

NextPsi == PsiTableWrite \/ PsiTableRead \/ PsiTableReadChanged

SpecPsi == InitPsi /\ [][NextPsi]_vars

\* C14: the last four bytes PsiTable::write_to writes for a table with a syntax
\* section are the CRC-32 of the bytes before them, which are the table header
\* and the syntax section body and nothing else; PsiTable::read_from of the
\* bytes written returns the table; and read_from of the bytes written with one
\* body byte changed and the CRC kept fails with InvalidInput.
C14_PsiIntegrity ==
    /\ (step \in {"written", "read", "read changed"} /\ IsSome(origin.syntax)) =>
          LET n    == Len(wire)
              body == PsiTableSyntaxWriteTo(origin.syntax[1])
          IN  /\ n = 3 + Len(body) + 4
              /\ SubSeq(wire, 4, n - 4) = body
              /\ SubSeq(wire, n - 3, n) = CrcBytes(Crc32(SubSeq(wire, 1, n - 4)))
    /\ step = "read" => (back.err = "Ok" /\ back.val = Some(origin))
    /\ step = "read changed" => back.err = "InvalidInput"

\* A section read with the last byte of its table data changed: the syntax
\* section is parsed and the comparison of the CRC is what fails.
C14_Witness ==
    /\ step = "read changed"
    /\ IsSome(origin.syntax)
    /\ origin.syntax[1].table_data # << >>
    /\ subject[Len(wire) - 4] # wire[Len(wire) - 4]
    /\ back.err = "InvalidInput"

-----------------------------------------------------------------------------
(* A ClockReference on its own: ClockReference::new of a u64, then the      *)
(* value written and read back in the PCR layout or in the ESCR layout, and *)
(* read_pcr_from of a PCR word whose reserved bits are given.               *)

\* The u64 base * 300 + extension, as limbs.
ClockValue(base, extension) == StripZeros(LimbsMulAdd(base, 300, extension))

\* Bases from 0 to 2^33 - 1, the largest 33-bit base, and 2^33; extensions
\* from 0 to 299, the largest remainder of a division by 300.
ClockBases == {<< >>, <<1>>, <<33>>, <<1, 0>>, <<2, 1, 32767>>, <<7, 32767, 32766>>,
               <<7, 32767, 32767>>, <<8, 0, 0>>}

ClockExtensions == {0, 1, 150, 211, 212, 299}

\* The six bits between the base and the extension of a PCR word.
ReservedOf(bytes) == Field(BytesToBits(bytes), 14, 9)

\* The PCR word `bytes` with its six reserved bits set to `reserved`.
WithReserved(bytes, reserved) ==
    LET bits == BytesToBits(bytes)
    IN  BitsToBytes(SubSeq(bits, 1, 33) \o NatToBits(reserved, 6) \o SubSeq(bits, 40, 48))

InitClock ==
    /\ origin \in {ClockValue(base, extension) :
                       base \in ClockBases, extension \in ClockExtensions}
    /\ subject = None
    /\ wire = << >>
    /\ back = NoResult
    /\ step = "drawn"
    /\ calls = 0
    /\ ReaderIdle /\ WriterIdle /\ PesIdle /\ TripIdle /\ EsIdle

\* ClockReference::new
ClockNew ==
    /\ step = "drawn"
    /\ LET r == ClockReferenceNew(origin)
       IN  /\ subject' = IF IsOk(r) THEN Some(r.val) ELSE None
           /\ back' = [err |-> r.err, val |-> IF IsOk(r) THEN Some(r.val) ELSE None]
           /\ step' = IF IsOk(r) THEN "made" ELSE "rejected"
    /\ calls' = calls + 1
    /\ UNCHANGED <<origin, wire, readerVars, writerVars, pesVars, tripVars, esVars>>

\* write_pcr_to into an empty Vec<u8>.
WritePcr ==
    /\ step = "made"
    /\ LET w == Call("WritePcrTo", <<subject[1]>>)
       IN  /\ wire' = w.val
           /\ back' = [err |-> w.err, val |-> None]
    /\ step' = "pcr written"
    /\ calls' = calls + 1
    /\ UNCHANGED <<origin, subject, readerVars, writerVars, pesVars, tripVars, esVars>>

\* read_pcr_from over the bytes written.
ReadPcr ==
    /\ step = "pcr written"
    /\ back.err = "Ok"
    /\ LET r == Call("ReadPcrFrom", <<wire>>)
       IN  back' = [err |-> r.err, val |-> IF IsOk(r) THEN Some(r.val) ELSE None]
    /\ step' = "pcr read"
    /\ calls' = calls + 1
    /\ UNCHANGED <<origin, subject, wire, readerVars, writerVars, pesVars, tripVars, esVars>>

\* write_escr_to into an empty Vec<u8>.
WriteEscr ==
    /\ step = "made"
    /\ LET w == Call("WriteEscrTo", <<subject[1]>>)
       IN  /\ wire' = w.val
           /\ back' = [err |-> w.err, val |-> None]
    /\ step' = "escr written"
    /\ calls' = calls + 1
    /\ UNCHANGED <<origin, subject, readerVars, writerVars, pesVars, tripVars, esVars>>

\* read_escr_from over the bytes written.
ReadEscr ==
    /\ step = "escr written"
    /\ back.err = "Ok"
    /\ LET r == Call("ReadEscrFrom", <<wire>>)
       IN  back' = [err |-> r.err, val |-> IF IsOk(r) THEN Some(r.val) ELSE None]
    /\ step' = "escr read"
    /\ calls' = calls + 1
    /\ UNCHANGED <<origin, subject, wire, readerVars, writerVars, pesVars, tripVars, esVars>>

\* read_pcr_from over the PCR word written, its reserved bits replaced.
ReadPcrWord ==
    /\ step = "pcr written"
    /\ back.err = "Ok"
    /\ \E reserved \in 0..63 :
          LET word == WithReserved(wire, reserved)
              r == Call("ReadPcrFrom", <<word>>)
          IN  /\ wire' = word
              /\ back' = [err |-> r.err, val |-> IF IsOk(r) THEN Some(r.val) ELSE None]
    /\ step' = "pcr word read"
    /\ calls' = calls + 1
    /\ UNCHANGED <<origin, subject, readerVars, writerVars, pesVars, tripVars, esVars>>

NextClock == ClockNew \/ WritePcr \/ ReadPcr \/ WriteEscr \/ ReadEscr \/ ReadPcrWord

SpecClock == InitClock /\ [][NextClock]_vars

\* C15: for every ClockReference that ClockReference::new has accepted, the
\* write in the PCR layout and the write in the ESCR layout succeed with six
\* bytes, and reading the six bytes back in the same layout gives the value.
C15_ClockRoundTrip ==
    /\ step \in {"pcr written", "escr written"} => (back.err = "Ok" /\ Len(wire) = 6)
    /\ step \in {"pcr read", "escr read"} => (back.err = "Ok" /\ back.val = subject)

\* The same for the values whose base, value / 300, is below 2^33.
ClockRoundTripBelowBaseOverflow ==
    LimbsLeq(origin, ClockValue(<<7, 32767, 32767>>, 299)) => C15_ClockRoundTrip

\* C16: the six reserved bits of every PCR word write_pcr_to writes are ones,
\* and read_pcr_from fails with InvalidInput for a word with one of them zero.
C16_PcrReservedBits ==
    /\ (step = "pcr written" /\ back.err = "Ok") => ReservedOf(wire) = 63
    /\ (step = "pcr word read" /\ ReservedOf(wire) # 63) => back.err = "InvalidInput"

-----------------------------------------------------------------------------
(* The bounded newtypes on their own: a value made by the constructor from a *)
(* number, or decoded by read_from from wire bytes.                         *)

\* ContinuityCounter::MAX, LegalTimeWindow::MAX_OFFSET, PiecewiseRate::MAX and
\* SeamlessSplice::MAX_SPLICE_TYPE
ContinuityCounterMax == (2 ^ 4) - 1
LegalTimeWindowMaxOffset == (2 ^ 15) - 1
PiecewiseRateMax == (2 ^ 22) - 1
SeamlessSpliceMaxSpliceType == (2 ^ 4) - 1

\* LegalTimeWindow::new
LegalTimeWindowNew(is_valid, offset) ==
    IF offset <= LegalTimeWindowMaxOffset
    THEN Ok([is_valid |-> is_valid, offset |-> offset], << >>)
    ELSE Err("InvalidInput", << >>)

\* PiecewiseRate::new
PiecewiseRateNew(rate) ==
    IF rate <= PiecewiseRateMax THEN Ok(rate, << >>) ELSE Err("InvalidInput", << >>)

\* SeamlessSplice::new
SeamlessSpliceNew(splice_type, dts_next_access_unit) ==
    IF splice_type <= SeamlessSpliceMaxSpliceType
    THEN Ok([splice_type |-> splice_type, dts_next_access_unit |-> dts_next_access_unit],
            << >>)
    ELSE Err("InvalidInput", << >>)

\* The constructor of a type applied to its arguments, a sequence of numbers:
\* the number; the limbs of the u64 for a Timestamp and a ClockReference; the
\* flag (0 or 1) and the offset; the splice type and then the limbs of a DTS.
Construct(type, n) ==
    CASE type = "Pid" -> PidNew(n[1])
      [] type = "ContinuityCounter" -> ContinuityCounterFromU8(n[1])
      [] type = "Timestamp" -> TimestampNew(n)
      [] type = "ClockReference" -> ClockReferenceNew(n)
      [] type = "LegalTimeWindow" -> LegalTimeWindowNew(n[1] = 1, n[2])
      [] type = "PiecewiseRate" -> PiecewiseRateNew(n[1])
      [] type = "SeamlessSplice" -> SeamlessSpliceNew(n[1], Tail(n))

\* The read_from that decodes each type.  A ContinuityCounter is decoded as a
\* part of a TsHeader, a ClockReference in the PCR layout ("Pcr") or in the
\* ESCR layout ("Escr").
ReadFromOf(type) ==
    CASE type = "Pid" -> "PidReadFrom"
      [] type = "ContinuityCounter" -> "TsHeaderReadFrom"
      [] type = "Timestamp" -> "TimestampReadFrom"
      [] type = "Pcr" -> "ReadPcrFrom"
      [] type = "Escr" -> "ReadEscrFrom"
      [] type = "LegalTimeWindow" -> "LegalTimeWindowReadFrom"
      [] type = "PiecewiseRate" -> "PiecewiseRateReadFrom"
      [] type = "SeamlessSplice" -> "SeamlessSpliceReadFrom"

\* The decoder of a type applied to wire bytes; a Timestamp is read with the
\* check bits of a PTS that has no DTS.
Decode(type, bytes) ==
    LET r == Call(ReadFromOf(type), IF type = "Timestamp" THEN <<bytes, 2>> ELSE <<bytes>>)
    IN  IF type = "ContinuityCounter" /\ IsOk(r)
        THEN Ok(r.val[1].continuity_counter, r.rest)
        ELSE r

\* Numbers at, below and above the bound of each constructor.
NewtypeNumbers ==
    {<<"Pid", <<n>>>> : n \in {0, 1, PidMax - 1, PidMax, PidMax + 1, 65535}}
    \cup {<<"ContinuityCounter", <<n>>>> : n \in {0, 14, 15, 16, 255}}
    \cup {<<"Timestamp", n>> : n \in {<< >>, <<1>>, <<7, 32767, 32767>>, <<8, 0, 0>>,
                                      <<1, 0, 0, 0>>}}
    \cup {<<"ClockReference", n>> :
             n \in {<< >>, <<1>>, ClockReferenceMax, LimbsMulAdd(ClockReferenceMax, 1, 1),
                    <<1, 0, 0, 0, 0>>}}
    \cup {<<"LegalTimeWindow", <<v, n>>>> : v \in {0, 1}, n \in {0, 32767, 32768, 65535}}
    \cup {<<"PiecewiseRate", <<n>>>> : n \in {0, 1, 4194303, 4194304, 16777215}}
    \cup {<<"SeamlessSplice", <<n, 1>>>> : n \in {0, 15, 16, 255}}

\* Bytes each decoder is handed: every field at its least and at its largest,
\* reserved and marker bits set and clear, and readers that run short.
WireBytes ==
    {<<type, <<a, b>>>> : type \in {"Pid", "LegalTimeWindow"},
                          a \in {0, 31, 127, 128, 224, 255}, b \in {0, 255}}
    \cup {<<"ContinuityCounter", <<SyncByte, a, 0, b>>>> :
             a \in {0, 31}, b \in {16, 31, 63, 208, 255}}
    \cup {<<"PiecewiseRate", <<a, b, c>>>> :
             a \in {0, 63, 64, 128, 255}, b \in {0, 255}, c \in {0, 255}}
    \cup {<<"Timestamp", <<a, b, 1, c, 1>>>> : a \in {33, 47, 32}, b \in {0, 255}, c \in {0, 255}}
    \cup {<<"Timestamp", <<47, 255, 255, 255, 255>>>>, <<"Timestamp", <<33, 0>>>>}
    \cup {<<"SeamlessSplice", <<a, b, 1, 0, 1>>>> : a \in {1, 15, 241, 255}, b \in {0, 255}}
    \cup {<<type, <<a, 255, 255, 255, b, c>>>> :
             type \in {"Pcr", "Escr"}, a \in {0, 63, 255}, b \in {1, 255}, c \in {1, 255}}

\* The bound the documentation of each type gives for its values.
InRange(type, v) ==
    CASE type = "Pid" -> v <= PidMax
      [] type = "ContinuityCounter" -> v <= ContinuityCounterMax
      [] type = "Timestamp" -> LimbsLeq(v, TimestampMax)
      [] type \in {"ClockReference", "Pcr", "Escr"} -> LimbsLeq(v, ClockReferenceMax)
      [] type = "LegalTimeWindow" -> v.offset <= LegalTimeWindowMaxOffset
      [] type = "PiecewiseRate" -> v <= PiecewiseRateMax
      [] type = "SeamlessSplice" ->
            v.splice_type <= SeamlessSpliceMaxSpliceType
                /\ LimbsLeq(v.dts_next_access_unit, TimestampMax)

InitNewtype ==
    /\ origin \in {[type |-> x[1], via |-> "new", input |-> x[2]] : x \in NewtypeNumbers}
                  \cup {[type |-> x[1], via |-> "read_from", input |-> x[2]] : x \in WireBytes}
    /\ subject = None
    /\ wire = << >>
    /\ back = NoResult
    /\ step = "drawn"
    /\ calls = 0
    /\ ReaderIdle /\ WriterIdle /\ PesIdle /\ TripIdle /\ EsIdle

\* The constructor of the type, on the number drawn.
NewtypeNew ==
    /\ step = "drawn"
    /\ origin.via = "new"
    /\ LET r == Construct(origin.type, origin.input)
       IN  /\ subject' = IF IsOk(r) THEN Some(r.val) ELSE None
           /\ back' = [err |-> r.err, val |-> IF IsOk(r) THEN Some(r.val) ELSE None]
    /\ step' = "made"
    /\ calls' = calls + 1
    /\ UNCHANGED <<origin, wire, readerVars, writerVars, pesVars, tripVars, esVars>>

\* The read_from of the type, over the bytes drawn.
NewtypeReadFrom ==
    /\ step = "drawn"
    /\ origin.via = "read_from"
    /\ LET r == Decode(origin.type, origin.input)
       IN  /\ subject' = IF IsOk(r) THEN Some(r.val) ELSE None
           /\ back' = [err |-> r.err, val |-> IF IsOk(r) THEN Some(r.val) ELSE None]
    /\ wire' = origin.input
    /\ step' = "made"
    /\ calls' = calls + 1
    /\ UNCHANGED <<origin, readerVars, writerVars, pesVars, tripVars, esVars>>

NextNewtype == NewtypeNew \/ NewtypeReadFrom

SpecNewtype == InitNewtype /\ [][NextNewtype]_vars

\* C17: every value of a bounded newtype that a constructor or a read_from has
\* returned is within the range of its type.
C17_NewtypeRanges ==
    (step = "made" /\ back.err = "Ok") => InRange(origin.type, subject[1])

\* The same for every type but PiecewiseRate.
NewtypeRangesButPiecewiseRate ==
    origin.type # "PiecewiseRate" => C17_NewtypeRanges

-----------------------------------------------------------------------------
(* A ContinuityCounter on its own: a counter made by from_u8, then          *)
(* increment calls.                                                         *)

\* The increment calls made on one counter in a run.
MaxIncrements == 17

\* The counter left as it is plus one, without the mask
IncrementUnmasked(v) == (v + 1) % 256

\* ContinuityCounter::increment: self.0 = (self.0 + 1) & Self::MAX, on a u8.
Increment(v) == ((v + 1) % 256) % (ContinuityCounterMax + 1)

\* ContinuityCounter::from_u8 of each u8 it accepts.
InitCounter ==
    /\ origin \in {n \in 0..255 : IsOk(ContinuityCounterFromU8(n))}
    /\ subject = origin
    /\ wire = << >>
    /\ back = NoResult
    /\ step = "made"
    /\ calls = 0
    /\ ReaderIdle /\ WriterIdle /\ PesIdle /\ TripIdle /\ EsIdle

\* A call of ContinuityCounter::increment.
IncrementCall ==
    /\ calls < MaxIncrements
    /\ subject' = Increment(subject)
    /\ step' = "incremented"
    /\ calls' = calls + 1
    /\ UNCHANGED <<origin, wire, back, readerVars, writerVars, pesVars, tripVars, esVars>>

NextCounter == IncrementCall

SpecCounter == InitCounter /\ [][NextCounter]_vars

\* C18: an increment call takes the counter from v to (v + 1) mod 16, so the
\* counter is at most 15 after every call, and after the sixteenth call made
\* on it the counter is at the value it started from.
C18_IncrementModulo16 ==
    [][calls' = calls + 1 =>
          /\ subject' = (subject + 1) % 16
          /\ subject' <= 15
          /\ (calls' = 16 => subject' = origin)]_vars

\* A counter that started from 15, wrapped to 0 at the first call and is back
\* at 15 after sixteen calls.
C18_Witness == calls = 16 /\ origin = 15 /\ subject = 15 /\ step = "incremented"


-----------------------------------------------------------------------------
(* read_pes_packet, one TS packet at a time: what a call does with each of   *)
(* the results it takes from the TS packet reader.                           *)

\* The results of read_ts_packet the last read_pes_packet call has taken.
TakenByCall == Drop(consumed', Len(consumed))

\* The map when that call reaches the j-th of them: the j - 1 before it have
\* each been handled with Ok(None).
MapBefore(j) == ReadPesLoop(Take(TakenByCall, j - 1), pes_packets).pes_packets

\* The j-th result taken is a TS packet with a payload of `kind` on a PID that
\* has an entry in the map at that moment.
TakenInFlight(j, kind) ==
    LET x == TakenByCall[j]
    IN  /\ x.err = "Ok"
        /\ IsSome(x.val[1].payload)
        /\ x.val[1].payload[1].kind = kind
        /\ x.val[1].header.pid \in DOMAIN MapBefore(j)

\* The call has gone on after the j-th result: it has taken another one, or
\* found the end of the stream.
WentOnAfter(j) == j < Len(TakenByCall) \/ eos'

\* The j-th result taken is a PES start on a PID in flight: the call ends with
\* it, returns the entry it replaces if that one is unbounded or has its
\* declared length and InvalidInput otherwise, and the new PES is in the map.
ReplacesPrior(j) ==
    LET pes   == TakenByCall[j].val[1].payload[1]
        pid   == TakenByCall[j].val[1].header.pid
        prior == MapBefore(j)[pid]
    IN  /\ j = Len(TakenByCall)
        /\ ~eos'
        /\ pes_result' = IF DataLenMatches(prior)
                         THEN [err |-> "Ok", val |-> Some(prior.packet)]
                         ELSE [err |-> "InvalidInput", val |-> None]
        /\ pid \in DOMAIN pes_packets'
        /\ pes_packets'[pid].packet = [header |-> pes.header, data |-> pes.data]
        /\ pes_packets'[pid].data_len
             = IF pes.pes_packet_len = 0 THEN None
               ELSE Some(DeclaredLen(pes.header, pes.pes_packet_len))

\* C19 as stated, for every PES start on a PID that has an entry in flight.
C19_AnyStartReplacesPrior ==
    [][(calls' = calls + 1 /\ ~eos)
         => \A j \in DOMAIN TakenByCall :
               TakenInFlight(j, "Pes") => ReplacesPrior(j)]_vars

\* pes.pes_packet_len is 0 or covers the optional header.
WellFormedStart(pes) ==
    pes.pes_packet_len = 0 \/ pes.pes_packet_len >= optional_header_len(pes.header)

\* C19: when read_pes_packet takes a PES start, whose pes_packet_len is 0 or at
\* least its optional_header_len, on a PID that has an entry in flight, the
\* call returns the prior entry if that one is unbounded or its data has the
\* declared length, and InvalidInput otherwise; after the call the entry in
\* flight for the PID is the new PES.
C19_StartReplacesPrior ==
    [][(calls' = calls + 1 /\ ~eos)
         => \A j \in DOMAIN TakenByCall :
               (TakenInFlight(j, "Pes") /\ WellFormedStart(TakenByCall[j].val[1].payload[1]))
                   => ReplacesPrior(j)]_vars

\* The last call has failed on a PES start because the bounded entry it has
\* replaced was short of its length, and the new PES is in flight on PID 257;
\* an earlier call has returned a replaced entry.
C19_Witness ==
    /\ calls >= 2
    /\ pes_result.err = "InvalidInput"
    /\ consumed # << >>
    /\ consumed[Len(consumed)] = PesInputs[1]
    /\ 257 \in DOMAIN pes_packets
    /\ pes_packets[257].packet.data = <<1, 2>>
    /\ EmittedVia("Pes") # {}

\* C20: when read_pes_packet takes a Raw continuation on a PID that has an
\* entry in flight, the bytes go after the entry's data; a bounded entry that
\* now has its declared length is returned and is no longer in the map; a
\* bounded entry that now has more makes the call fail with InvalidInput;
\* otherwise the entry stays in the map, with the bytes, and the call goes on
\* to the next result of the TS packet reader.
C20_RawContinuation ==
    [][(calls' = calls + 1 /\ ~eos)
         => \A j \in DOMAIN TakenByCall :
               TakenInFlight(j, "Raw") =>
                  LET pid   == TakenByCall[j].val[1].header.pid
                      prior == MapBefore(j)[pid]
                      data  == prior.packet.data \o TakenByCall[j].val[1].payload[1].data
                  IN  IF IsSome(prior.data_len) /\ Len(data) = prior.data_len[1]
                      THEN /\ j = Len(TakenByCall)
                           /\ ~eos'
                           /\ pes_result' = [err |-> "Ok",
                                             val |-> Some([header |-> prior.packet.header,
                                                           data |-> data])]
                           /\ pid \notin DOMAIN pes_packets'
                      ELSE IF IsSome(prior.data_len) /\ Len(data) > prior.data_len[1]
                      THEN /\ j = Len(TakenByCall)
                           /\ ~eos'
                           /\ pes_result' = [err |-> "InvalidInput", val |-> None]
                      ELSE /\ WentOnAfter(j)
                           /\ pid \in DOMAIN MapBefore(j + 1)
                           /\ MapBefore(j + 1)[pid].packet
                                = [header |-> prior.packet.header, data |-> data]
                           /\ MapBefore(j + 1)[pid].data_len = prior.data_len]_vars

\* The first call has taken a PES start with one of its three bytes and the
\* continuation with the other two, and has returned the packet.
C20_Witness ==
    /\ calls = 1
    /\ consumed = <<PesInputs[2], PesInputs[3]>>
    /\ pes_result.err = "Ok"
    /\ IsSome(pes_result.val)
    /\ pes_result.val[1].data = <<3, 4, 5>>
    /\ 257 \notin DOMAIN pes_packets


-----------------------------------------------------------------------------
(* The two reassembling readers side by side: a PesPacketReader and an       *)
(* EsFrameReader, one of them over the results given and the other over a    *)
(* source that is at its end.                                                *)

InitReaders == InitPes \/ InitEs

NextReaders == ReadPesPacketCall \/ ReadEsFrameCall

SpecReaders == InitReaders /\ [][NextReaders]_vars

\* The results of read_packet the last read_es_frame call has taken.
EsTakenByCall == Drop(es_consumed', Len(es_consumed))

\* es_frames when that call reaches the j-th of them.
EsMapBefore(j) == ReadEsLoop(Take(EsTakenByCall, j - 1), es_frames, es_pcr).es_frames

\* The j-th of the results `taken` is a packet with a payload of `kind`.
IsPayload(taken, j, kind) ==
    /\ j \in DOMAIN taken
    /\ taken[j].err = "Ok"
    /\ IsSome(taken[j].val[1].payload)
    /\ taken[j].val[1].payload[1].kind = kind

\* A continuation on a PID with no entry ends the read_pes_packet call with
\* InvalidInput.
RawWithoutEntryFailsPes ==
    \A j \in DOMAIN TakenByCall :
        (IsPayload(TakenByCall, j, "Raw")
            /\ TakenByCall[j].val[1].header.pid \notin DOMAIN MapBefore(j))
          => (j = Len(TakenByCall) /\ pes_result' = [err |-> "InvalidInput", val |-> None])

\* A continuation on a PID with no frame ends the read_es_frame call with
\* InvalidInput.
RawWithoutEntryFailsEs ==
    \A j \in DOMAIN EsTakenByCall :
        (IsPayload(EsTakenByCall, j, "Raw")
            /\ EsTakenByCall[j].val[1].header.pid \notin DOMAIN EsMapBefore(j))
          => (j = Len(EsTakenByCall) /\ es_result' = [err |-> "InvalidInput", val |-> None])

\* The last result taken before this call was a continuation on `pid` with
\* which the call before completed and returned a bounded packet of `pid`:
\* read_pes_packet.
JustCompletedPes(pid) ==
    /\ consumed # << >>
    /\ consumed[Len(consumed)].err = "Ok"
    /\ consumed[Len(consumed)].val[1].header.pid = pid
    /\ pes_result.err = "Ok"
    /\ IsSome(pes_result.val)
    /\ emitted[Len(emitted)].from[1].pid = pid
    /\ emitted[Len(emitted)].from[1].via = "Raw"
    /\ emitted[Len(emitted)].from[1].pes_packet_len # 0

\* The same for read_es_frame, which returns a frame that is complete with the
\* packet that completes it, a PES start or a continuation.
JustCompletedEs(pid) ==
    /\ es_consumed # << >>
    /\ es_consumed[Len(es_consumed)].err = "Ok"
    /\ es_consumed[Len(es_consumed)].val[1].header.pid = pid
    /\ es_result.err = "Ok"
    /\ IsSome(es_result.val)
    /\ es_result.val[1].pid = pid
    /\ IsSome(es_result.val[1].frame_len)
    /\ es_result.val[1].frame_len[1] = Len(es_result.val[1].data)

\* A continuation on `pid` that is the first result a call takes, right after
\* a bounded packet of `pid` was completed and returned, fails the call.
RawAfterCompletedFailsPes ==
    (IsPayload(TakenByCall, 1, "Raw") /\ JustCompletedPes(TakenByCall[1].val[1].header.pid))
        => pes_result' = [err |-> "InvalidInput", val |-> None]

RawAfterCompletedFailsEs ==
    (IsPayload(EsTakenByCall, 1, "Raw") /\ JustCompletedEs(EsTakenByCall[1].val[1].header.pid))
        => es_result' = [err |-> "InvalidInput", val |-> None]

\* C21: a Raw continuation on a PID that has no entry in flight makes the call
\* fail with InvalidInput, in read_pes_packet and in read_es_frame, and so does
\* a Raw continuation that comes right after a bounded PES of its PID was
\* completed and returned.
C21_RawWithoutEntry ==
    [][(calls' = calls + 1)
         => /\ RawWithoutEntryFailsPes
            /\ RawWithoutEntryFailsEs
            /\ RawAfterCompletedFailsPes
            /\ RawAfterCompletedFailsEs]_vars

\* What holds of it: the continuation with no entry, in both readers, and the
\* continuation after a completed packet in read_pes_packet.
RawWithoutEntryButEsAfterCompleted ==
    [][(calls' = calls + 1)
         => /\ RawWithoutEntryFailsPes
            /\ RawWithoutEntryFailsEs
            /\ RawAfterCompletedFailsPes]_vars


\* The frame a PES start begins: es.rs, the Pes arm of read_es_frame.
FrameOf(packet) ==
    LET pes == packet.payload[1]
    IN  EsFrame(pes.header.stream_id, pes.header.pts, pes.header.dts, pes.data,
                packet.header.pid,
                IF pes.header.pes_packet_len # 0 THEN Some(pes.header.pes_packet_len)
                ELSE None)

\* The j-th result the call has taken is a PES start on a PID that holds a
\* frame: the call ends with it and returns the frame held, and what the PID
\* holds afterwards, if anything, is the frame of the new PES.
EmitsHeld(j) ==
    LET packet == EsTakenByCall[j].val[1]
        pid    == packet.header.pid
    IN  /\ j = Len(EsTakenByCall)
        /\ es_result' = [err |-> "Ok", val |-> Some(EsMapBefore(j)[pid])]
        /\ pid \in DOMAIN es_frames' => es_frames'[pid] = FrameOf(packet)

\* The frame of the PES start has its bounded length with its first packet.
CompleteFrame(frame) == frame.frame_len = Some(Len(frame.data))

\* C22: whenever read_es_frame takes a PES start on a PID for which it holds a
\* frame, the frame held is returned and is no longer held for the PID, for
\* every PES start, also one that is complete with its first packet.
C22_StartEmitsHeldFrame ==
    [][(calls' = calls + 1)
         => \A j \in DOMAIN EsTakenByCall :
               (IsPayload(EsTakenByCall, j, "Pes")
                   /\ EsTakenByCall[j].val[1].header.pid \in DOMAIN EsMapBefore(j))
                 => EmitsHeld(j)]_vars

\* What holds of it: the PES starts that are not complete with their first
\* packet.
IncompleteStartEmitsHeldFrame ==
    [][(calls' = calls + 1)
         => \A j \in DOMAIN EsTakenByCall :
               (IsPayload(EsTakenByCall, j, "Pes")
                   /\ EsTakenByCall[j].val[1].header.pid \in DOMAIN EsMapBefore(j)
                   /\ ~CompleteFrame(FrameOf(EsTakenByCall[j].val[1])))
                 => EmitsHeld(j)]_vars


\* The results taken that are packets with a PCR in their adaptation field.
WithPcr(taken) ==
    {i \in DOMAIN taken : /\ taken[i].err = "Ok"
                          /\ IsSome(taken[i].val[1].adaptation_field)
                          /\ IsSome(taken[i].val[1].adaptation_field[1].pcr)}

\* The PCR of the last of them, and 0 if there is none.
LastPcr(taken) ==
    IF WithPcr(taken) = {} THEN Limbs(0)
    ELSE LET last == CHOOSE i \in WithPcr(taken) : \A k \in WithPcr(taken) : k <= i
         IN  taken[last].val[1].adaptation_field[1].pcr[1]

\* C23: after any sequence of read_es_frame calls, pcr() is the PCR of the
\* adaptation field of the last packet taken that has one, on any PID and with
\* any payload, and 0 if no packet taken has one; a packet without a PCR
\* leaves it as it is.
C23_PcrLatch ==
    /\ es_pcr = LastPcr(es_consumed)
    /\ (es_consumed # << >> /\ Len(es_consumed) \notin WithPcr(es_consumed))
          => LastPcr(es_consumed) = LastPcr(Take(es_consumed, Len(es_consumed) - 1))

\* Two PCRs have been taken, the second one on a packet with no payload, and
\* then a packet with an adaptation field that has none.
C23_Witness ==
    /\ es_consumed = <<EsInputs[2], EsInputs[10], EsInputs[11]>>
    /\ es_pcr = Limbs(54000)


-----------------------------------------------------------------------------
(* What write_ts_packet puts around the payload.                            *)

\* The packet the last write_ts_packet call was given, its payload as
\* TsPayload::write_to serializes it, and the space that leaves.
GivenPacket == wresult'.val[1]

PayloadBytes ==
    IF IsSome(GivenPacket.payload) THEN TsPayloadWriteTo(GivenPacket.payload[1]).val
    ELSE << >>

FreeLen == TsPacketSize - 4 - Len(PayloadBytes)

\* adaptation_field_control of the packet written: bits 5 and 4 of its 4th byte.
WrittenControl == (Appended[4] \div 16) % 4

\* C24: a packet written has adaptation_field_control 01 exactly when no
\* adaptation field was given and the serialized payload has 184 bytes; with no
\* adaptation field given and free = 184 - payload_len > 0, the header is
\* followed by a stuffing-only adaptation field, a length byte of free - 1 and,
\* when free >= 2, a zero flags byte and free - 2 bytes of 0xFF, and the
\* payload follows it.
C24_StuffingPolicy ==
    [][(calls' = calls + 1 /\ wresult'.err = "Ok")
         => /\ WrittenControl = PayloadOnly
                 <=> (~IsSome(GivenPacket.adaptation_field) /\ Len(PayloadBytes) = 184)
            /\ (~IsSome(GivenPacket.adaptation_field) /\ FreeLen > 0)
                 => /\ HasAdaptationField(WrittenControl)
                    /\ Appended[5] = FreeLen - 1
                    /\ FreeLen >= 2
                         => /\ Appended[6] = 0
                            /\ \A i \in 7..(4 + FreeLen) : Appended[i] = 255
                    /\ Drop(Appended, 4 + FreeLen) = PayloadBytes]_vars

\* A payload of 184 bytes written as it is, then one of 183 bytes behind an
\* adaptation field that is its length byte alone.
C24_Witness ==
    /\ okWrites = 2
    /\ Len(sink) = 376
    /\ (sink[4] \div 16) % 4 = PayloadOnly
    /\ (sink[192] \div 16) % 4 = AdaptationFieldAndPayload
    /\ sink[193] = 0
    /\ wresult.val[1].payload[1].data = RawBytes(183)
    /\ ~IsSome(wresult.val[1].adaptation_field)


\* The last call was given an adaptation field, with a payload that
\* TsPayload::write_to serializes into the 184 bytes of the scratch buffer.
GivenField ==
    /\ IsSome(GivenPacket.adaptation_field)
    /\ IsSome(GivenPacket.payload) => IsOk(PayloadBuf(GivenPacket.payload[1]))

\* The adaptation field written takes the free space: its length byte is
\* free - 1, what follows its fields up to the payload is 0xFF, and the payload
\* comes after it.
FieldFillsFree(a) ==
    /\ wresult'.err = "Ok"
    /\ Appended[5] = FreeLen - 1
    /\ \A i \in (4 + ExternalSize(a) + 1)..(4 + FreeLen) : Appended[i] = 255
    /\ Drop(Appended, 4 + FreeLen) = PayloadBytes

\* C25: write_ts_packet fails with InvalidInput when the size the given
\* adaptation field requires, its length byte included, exceeds free = 184 -
\* payload length; when it fits, the field is written with the length byte
\* free - 1 and 0xFF fills what its fields leave of the free space.
C25_FieldMustFit ==
    [][(calls' = calls + 1 /\ GivenField)
         => LET a == GivenPacket.adaptation_field[1]
            IN  IF ExternalSize(a) > FreeLen
                THEN wresult'.err = "InvalidInput"
                ELSE FieldFillsFree(a)]_vars

\* The base of the clock reference takes the 33 bits of the wire field.
BaseFits(cr) == ~IsSome(cr) \/ LimbsLeq(cr[1], LimbsMulAdd(<<7, 32767, 32767>>, 300, 299))

\* What holds of it: the adaptation fields whose PCR and OPCR have a base of at
\* most 33 bits.
FieldMustFitBelowBaseOverflow ==
    [][(calls' = calls + 1 /\ GivenField
          /\ BaseFits(GivenPacket.adaptation_field[1].pcr)
          /\ BaseFits(GivenPacket.adaptation_field[1].opcr))
         => LET a == GivenPacket.adaptation_field[1]
            IN  IF ExternalSize(a) > FreeLen
                THEN wresult'.err = "InvalidInput"
                ELSE FieldFillsFree(a)]_vars


-----------------------------------------------------------------------------
(* An adaptation field on its own: AdaptationField::write_to with a length   *)
(* that has room for it, then AdaptationField::read_from of what was        *)
(* written.                                                                 *)

\* Adaptation fields: the flags, each optional field present and absent,
\* private data empty, of one byte and of more, the extension.
AdaptationFields ==
    {[Field0 EXCEPT !.discontinuity_indicator = d, !.random_access_indicator = r,
                    !.es_priority_indicator = d /\ r] : d, r \in BOOLEAN}
    \cup {FieldPcr, FieldFull,
          [Field0 EXCEPT !.opcr = Some(Limbs(301))],
          [Field0 EXCEPT !.splice_countdown = Some(255)],
          [FieldPcr EXCEPT !.splice_countdown = Some(0), !.opcr = Some(Limbs(299))],
          FieldPrivate(<<7>>),
          FieldPrivate(<<200, 1>>),
          FieldPrivate(<<1, 255>>),
          [FieldFull EXCEPT !.transport_private_data = <<2, 9, 9>>]}

\* The lengths given with a field: what it requires, and more up to the 183
\* bytes a TS packet has for it.
FieldLens(a) == {ExternalSize(a) - 1, ExternalSize(a), ExternalSize(a) + 5, TsPacketSize - 5}

InitField ==
    /\ origin \in {[a |-> a, field_len |-> l] : a \in AdaptationFields, l \in 1..(TsPacketSize - 5)}
    /\ origin.field_len \in FieldLens(origin.a)
    /\ subject = None
    /\ wire = << >>
    /\ back = NoResult
    /\ step = "new"
    /\ calls = 0
    /\ ReaderIdle /\ WriterIdle /\ PesIdle /\ TripIdle /\ EsIdle

\* AdaptationField::write_to into an empty Vec<u8>.
FieldWrite ==
    /\ step = "new"
    /\ LET w == Call("AdaptationFieldWriteTo", <<origin.a, origin.field_len>>)
       IN  /\ wire' = w.val
           /\ back' = [err |-> w.err, val |-> None]
    /\ step' = "written"
    /\ calls' = calls + 1
    /\ UNCHANGED <<origin, subject, readerVars, writerVars, pesVars, tripVars, esVars>>

\* AdaptationField::read_from over the bytes written.
FieldRead ==
    /\ step = "written"
    /\ back.err = "Ok"
    /\ LET r == Call("AdaptationFieldReadFrom", <<wire>>)
       IN  /\ back' = [err |-> r.err, val |-> IF IsOk(r) THEN r.val ELSE None]
           /\ subject' = IF IsOk(r) THEN Some(r.rest) ELSE None
    /\ step' = "read"
    /\ calls' = calls + 1
    /\ UNCHANGED <<origin, wire, readerVars, writerVars, pesVars, tripVars, esVars>>

NextField == FieldWrite \/ FieldRead

SpecField == InitField /\ [][NextField]_vars

\* C26: for every adaptation field a and every length L with L + 1 at least
\* the size a requires, write_to(a, L) writes exactly L + 1 bytes and read_from
\* on them returns Some(a); private data that is not empty is written behind
\* a byte with its length and read back as it was.
C26_FieldRoundTrip ==
    /\ step = "written"
          => /\ back.err = "Ok"
             /\ Len(wire) = origin.field_len + 1
             /\ origin.a.transport_private_data # << >>
                  => LET at == ExternalSize([origin.a EXCEPT !.transport_private_data = << >>,
                                                             !.extension = None])
                         n  == Len(origin.a.transport_private_data)
                     IN  /\ wire[at + 1] = n
                         /\ SubSeq(wire, at + 2, at + 1 + n) = origin.a.transport_private_data
    /\ step = "read" => (back.err = "Ok" /\ back.val = Some(origin.a))

\* What holds of it: the adaptation fields with no private data.
FieldRoundTripWithoutPrivateData ==
    origin.a.transport_private_data = << >> => C26_FieldRoundTrip


-----------------------------------------------------------------------------
(* A PMT section on its own: the section is written around the table data   *)
(* given, with its CRC, and Pmt::read_from reads it.                        *)

\* Table data of a PMT: the PCR PID, the word with program_info_len, and what
\* follows it: nothing, descriptors, descriptors and an EsInfo, an EsInfo.
PmtTableDatas ==
    {pcr_pid \o <<240, program_info_len>> \o tail :
        pcr_pid \in {<<225, 0>>, <<255, 255>>},
        program_info_len \in {0, 2, 3, 4, 7, 8},
        tail \in {<< >>, <<10, 0>>, <<10, 1, 5>>,
                  <<10, 0, 15, 225, 1, 240, 0>>, <<15, 225, 1, 240, 0>>}}

\* program_info_len of the table data, and the bytes that remain after it.
ProgramInfoLen(table_data) == table_data[4]

AfterProgramInfoLen(table_data) == Len(table_data) - 4

InitPmt ==
    /\ origin \in PmtTableDatas
    /\ subject = None
    /\ wire = << >>
    /\ back = NoResult
    /\ step = "new"
    /\ calls = 0
    /\ ReaderIdle /\ WriterIdle /\ PesIdle /\ TripIdle /\ EsIdle

\* Psi::write_to of the one table of a PMT, with the table data given.
PmtSectionWrite ==
    /\ step = "new"
    /\ LET w == Call("PsiWriteTo", <<<<PsiTableOf(PmtTableId, FALSE,
                      Some(PsiTableSyntaxOf(1, 0, TRUE, 0, 0, origin)))>>>>)
       IN  /\ wire' = w.val
           /\ back' = [err |-> w.err, val |-> None]
    /\ step' = "written"
    /\ calls' = calls + 1
    /\ UNCHANGED <<origin, subject, readerVars, writerVars, pesVars, tripVars, esVars>>

\* Pmt::read_from over the section.
PmtRead ==
    /\ step = "written"
    /\ back.err = "Ok"
    /\ LET r == Call("PmtReadFrom", <<wire>>)
       IN  back' = [err |-> r.err, val |-> IF IsOk(r) THEN Some(r.val) ELSE None]
    /\ step' = "read"
    /\ calls' = calls + 1
    /\ UNCHANGED <<origin, subject, wire, readerVars, writerVars, pesVars, tripVars, esVars>>

NextPmt == PmtSectionWrite \/ PmtRead

SpecPmt == InitPmt /\ [][NextPmt]_vars

\* C27: reading a PMT whose program_info_len is larger than the number of
\* bytes of table data that remain after it returns an InvalidInput error: an
\* error value, no panic and no PMT.
C27_ProgramInfoLenOverrun ==
    (step = "read" /\ ProgramInfoLen(origin) > AfterProgramInfoLen(origin))
        => (back.err = "InvalidInput" /\ back.val = None)

\* What holds of the other sections: read_from returns, a PMT or an error.
PmtReadReturnsWithinTableData ==
    (step = "read" /\ ProgramInfoLen(origin) <= AfterProgramInfoLen(origin))
        => back.err # "Panic"


-----------------------------------------------------------------------------
(* The TS packet reader over streams that hold packets which do not fill    *)
(* their 188 bytes and packets that are cut short.                          *)

\* An adaptation field of two bytes and no payload, the rest of the 188 bytes
\* being stuffing that the field's length does not cover.
ShortFieldPacketBytes ==
    Stuffed(TsHeaderWriteTo(Header(300, 4), AdaptationFieldOnly, FALSE) \o <<1, 0>>)

\* The same with no adaptation field at all (a length byte of 0).
EmptyFieldPacketBytes ==
    Stuffed(TsHeaderWriteTo(Header(300, 5), AdaptationFieldOnly, FALSE) \o <<0>>)

RegionPackets ==
    <<PatPacketBytes,
      Serialized(TsPacketOf(Header(PidNull, 0), None, Some(NullPayload))),
      Serialized(TsPacketOf(Header(300, 0), Some(FieldPcr), None)),
      ShortFieldPacketBytes,
      EmptyFieldPacketBytes,
      \* packets cut short: in the payload, in the header
      Take(PatPacketBytes, 100),
      Take(PatPacketBytes, 2)>>

\* TsPacketReader::new over such a stream.
InitRegion ==
    /\ stream \in Streams(RegionPackets, MaxPackets)
    /\ pids = << >>
    /\ result = NoResult
    /\ dispatch = "NoCall"
    /\ decoded = << >>
    /\ calls = 0
    /\ WriterIdle /\ PesIdle /\ TripIdle /\ EsIdle /\ CodecIdle

SpecRegion == InitRegion /\ [][Next]_vars

\* The bytes the last read_ts_packet call has taken from the source.
TakenBytes == Len(stream) - Len(stream')

\* The source holds a whole packet with an adaptation field and no payload,
\* whose adaptation field decodes and is shorter than the 183 bytes it has.
ShortFieldAhead ==
    /\ Len(stream) >= TsPacketSize
    /\ stream[1] = SyncByte
    /\ (stream[4] \div 16) % 4 = AdaptationFieldOnly
    /\ stream[5] < TsPacketSize - 5
    /\ IsOk(AdaptationFieldReadFrom(SubSeq(stream, 5, TsPacketSize)))

\* C28: read_ts_packet returns Some(packet) only when the call has taken
\* exactly 188 bytes from the source; when bytes of the 188 remain after the
\* header, the adaptation field and the payload, as with an adaptation field
\* shorter than 183 bytes and no payload, it fails with InvalidInput; it
\* returns None only when the source has no byte left; a packet cut short at
\* the end of the source is never returned.
C28_RegionConsumed ==
    [][(calls' = calls + 1)
         => /\ (result'.err = "Ok" /\ IsSome(result'.val)) => TakenBytes = TsPacketSize
            /\ ShortFieldAhead => result' = [err |-> "InvalidInput", val |-> None]
            /\ (result'.err = "Ok" /\ ~IsSome(result'.val)) => stream = << >>
            /\ (Len(stream) \in 1..(TsPacketSize - 1)) => result'.err \notin {"Ok"}]_vars

\* A packet read, then one with a short adaptation field refused, and what is
\* left of the source is cut short.
C28_Witness ==
    /\ calls = 2
    /\ Len(decoded) = 1
    /\ result.err = "InvalidInput"
    /\ dispatch = "NoPayload"
    /\ Len(stream) = (TsPacketSize - 6) + 100


-----------------------------------------------------------------------------
(* What a write_ts_packet call that does not return Ok leaves in the sink.  *)

\* The last call has returned an error value.
WriteFailed == wresult'.err \notin {"Ok", "Panic"}

\* C29: a write_ts_packet call that fails with InvalidInput (the adaptation
\* field does not fit, a PES header with a DTS and no PTS, a PMT or PSI length
\* beyond its ceiling) or because the payload has more than 184 bytes writes no
\* byte to the sink; so after any sequence of calls the sink holds 188 bytes
\* for each call that returned Ok and no other byte.
C29_FailedWriteWritesNothing ==
    [][(calls' = calls + 1)
         => /\ WriteFailed => Appended = << >>
            /\ Len(sink') = TsPacketSize * okWrites']_vars

\* The same for the calls that return: an error value leaves the sink as it
\* was, Ok adds 188 bytes.
ReturnedWriteWritesNothingOrPacket ==
    [][(calls' = calls + 1 /\ wresult'.err # "Panic")
         => /\ WriteFailed => (Appended = << >> /\ okWrites' = okWrites)
            /\ Len(Appended) = TsPacketSize * (okWrites' - okWrites)]_vars

\* Each of the failures the sink is spared has happened.
FailedWritesSeen ==
    /\ calls = 2 /\ okWrites = 1 /\ Len(sink) = TsPacketSize
    /\ wresult.err \in {"InvalidInput", "Other"}
    /\ IsSome(wresult.val[1].payload)
    /\ wresult.val[1].payload[1].kind \in {"Pes", "Pmt", "Raw"}


-----------------------------------------------------------------------------
(* Entries of the PES packet reader that fail a length check.               *)

\* The t-th result taken by the reader is a TS packet on `pid` with a payload
\* of `kind`.
TakenOn(t, pid, kind) ==
    /\ t \in DOMAIN consumed
    /\ consumed[t].err = "Ok"
    /\ IsSome(consumed[t].val[1].payload)
    /\ consumed[t].val[1].payload[1].kind = kind
    /\ consumed[t].val[1].header.pid = pid

\* The last of the first `upto` results taken that is a PES start on `pid`
\* which handle_pes_payload lets into the map, 0 if there is none.
LastStart(pid, upto) ==
    LET starts == {t \in 1..upto : /\ TakenOn(t, pid, "Pes")
                                   /\ WellFormedStart(consumed[t].val[1].payload[1])}
    IN  IF starts = {} THEN 0 ELSE CHOOSE t \in starts : \A u \in starts : u <= t

\* The data of the continuations on `pid` among the results first..last.
RawsOn(pid, first, last) ==
    LET on == SelectSeq([t \in 1..(last - first + 1) |-> first + t - 1],
                        LAMBDA t : TakenOn(t, pid, "Raw"))
    IN  Flatten([i \in DOMAIN on |-> consumed[on[i]].val[1].payload[1].data])

\* The calls that have handled the end of the stream.
DrainCalls ==
    IF IsSome(drained) THEN (Len(emitted) - Len(drained[1].results) + 1)..Len(emitted) ELSE {}

\* Call k has failed on a continuation or on a PES start of `pid`.
FailedOn(k, pid) ==
    /\ k \in DOMAIN emitted \ DrainCalls
    /\ emitted[k].err = "InvalidInput"
    /\ \/ TakenOn(reach[k], pid, "Raw")
       \/ /\ TakenOn(reach[k], pid, "Pes")
          /\ WellFormedStart(consumed[reach[k]].val[1].payload[1])

\* Every packet a call has returned is the one of the last PES start of its PID
\* before the result that made the call return it, with the continuations
\* since; no call has failed on that entry in between, and an entry returned
\* at the end of the stream has passed the length check.
ReturnedNeverFailed ==
    \A i \in DOMAIN emitted :
        IsSome(emitted[i].val) =>
            LET pid  == emitted[i].from[1].pid
                last == IF emitted[i].from[1].via = "Pes" THEN reach[i] - 1 ELSE reach[i]
                s    == LastStart(pid, last)
            IN  /\ s > 0
                /\ emitted[i].val[1]
                     = [header |-> consumed[s].val[1].payload[1].header,
                        data   |-> consumed[s].val[1].payload[1].data \o RawsOn(pid, s + 1, last)]
                /\ \A k \in 1..(i - 1) : ~(FailedOn(k, pid) /\ reach[k] > s)
                /\ (i \in DrainCalls) =>
                      /\ pid \in DOMAIN drained[1].at_eos
                      /\ DataLenMatches(drained[1].at_eos[pid])
                      /\ drained[1].at_eos[pid].packet = emitted[i].val[1]

\* The entry that a length check of the call fails on leaves the map in that
\* call: a continuation that makes a bounded entry too long, a PES start that
\* finds a bounded entry short of its length and takes its place, the end of
\* the stream that finds one.
FailingCallRemoves ==
    /\ \A j \in DOMAIN TakenByCall :
          (/\ TakenInFlight(j, "Raw")
           /\ IsSome(MapBefore(j)[TakenByCall[j].val[1].header.pid].data_len))
            => LET pid   == TakenByCall[j].val[1].header.pid
                   prior == MapBefore(j)[pid]
                   len   == Len(prior.packet.data) + Len(TakenByCall[j].val[1].payload[1].data)
               IN  len > prior.data_len[1]
                     => /\ j = Len(TakenByCall)
                        /\ ~eos'
                        /\ pes_result' = [err |-> "InvalidInput", val |-> None]
                        /\ pes_packets' = Remove(MapBefore(j), pid)
    /\ \A j \in DOMAIN TakenByCall :
          (/\ TakenInFlight(j, "Pes")
           /\ WellFormedStart(TakenByCall[j].val[1].payload[1])
           /\ ~DataLenMatches(MapBefore(j)[TakenByCall[j].val[1].header.pid]))
            => LET pid == TakenByCall[j].val[1].header.pid
                   pes == TakenByCall[j].val[1].payload[1]
               IN  /\ j = Len(TakenByCall)
                   /\ ~eos'
                   /\ pes_result' = [err |-> "InvalidInput", val |-> None]
                   /\ DOMAIN pes_packets' = DOMAIN MapBefore(j)
                   /\ \A p \in DOMAIN pes_packets' \ {pid} : pes_packets'[p] = MapBefore(j)[p]
                   /\ pes_packets'[pid].packet = [header |-> pes.header, data |-> pes.data]
    /\ (eos' /\ pes_result'.err = "InvalidInput")
          => LET before == MapBefore(Len(TakenByCall) + 1)
             IN  \E key \in DOMAIN before :
                    /\ ~DataLenMatches(before[key])
                    /\ pes_packets' = Remove(before, key)

\* What makes a call fail is the result it has taken last, or the entry the end
\* of the stream has come to, whatever the calls before have returned.
FailsOnlyOnItsOwn ==
    (pes_result'.err # "Ok" /\ ~eos')
        => LET j == Len(TakenByCall)
           IN  /\ j >= 1
               /\ TakenByCall = Take(ts_input, j)
               /\ \/ TakenByCall[j].err # "Ok"
                  \/ /\ IsPayload(TakenByCall, j, "Raw")
                     /\ \/ ~TakenInFlight(j, "Raw")
                        \/ LET prior == MapBefore(j)[TakenByCall[j].val[1].header.pid]
                           IN  /\ IsSome(prior.data_len)
                               /\ Len(prior.packet.data)
                                    + Len(TakenByCall[j].val[1].payload[1].data)
                                    > prior.data_len[1]
                  \/ /\ IsPayload(TakenByCall, j, "Pes")
                     /\ \/ ~WellFormedStart(TakenByCall[j].val[1].payload[1])
                        \/ /\ TakenInFlight(j, "Pes")
                           /\ ~DataLenMatches(MapBefore(j)[TakenByCall[j].val[1].header.pid])

\* C30: an entry of PesPacketReader that fails a length check (bounded and
\* short of its length when the next PES start of its PID or the end of the
\* stream comes to it, or made longer than its length by a continuation) is
\* out of the map when the failing call returns, and no later call returns
\* its data; the calls after the error go on with the next TS packets and
\* the entries that are left.
C30_FailedEntryIsGone ==
    [][(calls' = calls + 1)
         => (FailingCallRemoves /\ ReturnedNeverFailed' /\ FailsOnlyOnItsOwn)]_vars

\* A bounded entry on PID 257 was found short by the next PES start of the PID
\* and the call has failed; the two calls after it have returned, from the end
\* of the stream, the packet of that PES start and the one in flight on PID 258.
C30_Witness ==
    /\ calls = 3
    /\ consumed = <<PesInputs[4], PesInputs[2], PesInputs[1]>>
    /\ emitted[1].err = "InvalidInput"
    /\ {emitted[2].val, emitted[3].val}
         = {Some([header |-> PesHeaderOf(None, None, None), data |-> <<1, 2>>]),
            Some([header |-> PesHeaderOf(None, None, None), data |-> <<7>>])}
    /\ pes_packets = << >>

=============================================================================
